---- MODULE Spec2Model ----
(***************************************************************************)
(* Solasta Smart Scheduler: the orchestration engine                      *)
(* (app/orchestrator/engine.py), the plan graph model                     *)
(* (app/schemas/models.py), the planner's plan construction               *)
(* (app/cognitive/agents/planner.py) and the replanner's plan rewriting   *)
(* (app/cognitive/agents/replanner.py).                                   *)
(*                                                                        *)
(* A plan is a record [version, steps]; steps is the ordered step list.   *)
(* Python object references to steps are modelled by positions in that    *)
(* list: model_copy and list appends keep positions stable.               *)
(***************************************************************************)
EXTENDS Integers, Sequences, FiniteSets, TLC

\* ------------------------------------------------------------- bounds
\* Longest step list the Planner's language model answers with.
MaxSteps == 3
\* Longest modified_steps list the Replanner's language model answers with.
MaxModified == 1

\* ---------------------------------------------------- program constants
max_plan_iterations == 5
default_max_retries == 3

\* --------------------------------------------------------- enumerations
StepStatus ==
  {"pending", "in_progress", "evaluating", "completed", "failed", "skipped",
   "replanned"}

EvalResult == {"success", "failure", "partial"}

GoalStatus == {"received", "planning", "executing", "paused", "completed", "failed"}

\* Step identifiers the language models may answer with; "zz" names no step
\* the Planner ever emits (a dangling reference).
DepIds == {"s1", "s2", "zz"}

\* ---------------------------------------------------------- Step, Plan
Step(id, deps) ==
  [step_id |-> id, status |-> "pending", depends_on |-> deps,
   retry_count |-> 0, max_retries |-> default_max_retries,
   result_payload |-> "none", error_message |-> "none"]

Plan(ver, steps) == [version |-> ver, steps |-> steps]

Indices(s) == [i \in 1..Len(s) |-> i]

\* Plan.get_ready_steps, mutated: the dependency test dropped.
get_ready_steps_nodeps(p) ==
  LET IsPending(i) == p.steps[i].status = "pending"
  IN  SelectSeq(Indices(p.steps), IsPending)

\* Plan.get_ready_steps, mutated: failed dependencies count as satisfied.
get_ready_steps_failed_ok(p) ==
  LET completed_ids ==
        {p.steps[i].step_id :
           i \in {j \in DOMAIN p.steps :
                    p.steps[j].status \in {"completed", "skipped", "failed"}}}
      IsReady(i) ==
        /\ p.steps[i].status = "pending"
        /\ \A dep \in p.steps[i].depends_on : dep \in completed_ids
  IN  SelectSeq(Indices(p.steps), IsReady)

\* Plan.get_ready_steps: the positions of the ready steps, in list order.
get_ready_steps(p) ==
  LET completed_ids ==
        {p.steps[i].step_id :
           i \in {j \in DOMAIN p.steps :
                    p.steps[j].status \in {"completed", "skipped"}}}
      IsReady(i) ==
        /\ p.steps[i].status = "pending"
        /\ \A dep \in p.steps[i].depends_on : dep \in completed_ids
  IN  SelectSeq(Indices(p.steps), IsReady)

\* Plan.is_complete, mutated: a failed step counts as done.
is_complete_failed_ok(p) ==
  \A i \in DOMAIN p.steps :
    p.steps[i].status \in {"completed", "skipped", "failed"}

\* Plan.is_complete
is_complete(p) ==
  \A i \in DOMAIN p.steps : p.steps[i].status \in {"completed", "skipped"}

\* Plan.has_failed_steps
has_failed_steps(p) ==
  \E i \in DOMAIN p.steps : p.steps[i].status = "failed"

\* ------------------------------------------------------------- Planner
\* What the language model may answer as the "steps" list: up to MaxSteps
\* entries; an entry's step_id is its own name or repeats the first entry's,
\* its depends_on is any subset of DepIds.
StepName(i) == IF i = 1 THEN "s1" ELSE IF i = 2 THEN "s2" ELSE IF i = 3 THEN "s3" ELSE "s4"

RawPlans ==
  UNION {
    {r \in [1..n -> [step_id : {"s1", "s2", "s3", "s4"}, depends_on : SUBSET DepIds]] :
       \A i \in 1..n : r[i].step_id \in {StepName(i), "s1"}}
    : n \in 0..MaxSteps}

\* adj = {s.step_id: s.depends_on for s in steps}: a later entry wins.
adj(steps) ==
  [id \in {steps[i].step_id : i \in DOMAIN steps} |->
     LET last == CHOOSE i \in DOMAIN steps :
                   /\ steps[i].step_id = id
                   /\ \A j \in DOMAIN steps : steps[j].step_id = id => j <= i
     IN  steps[last].depends_on \cap {steps[i].step_id : i \in DOMAIN steps}]

RECURSIVE Descendants(_, _, _)
Descendants(a, frontier, n) ==
  IF n = 0 THEN frontier
  ELSE Descendants(a, frontier \cup UNION {a[x] : x \in frontier}, n - 1)

\* PlannerAgent._validate_dag's has_cycle over all step ids: some id reaches
\* itself along adj (ids that name no step are skipped).
has_cycle(steps) ==
  LET a == adj(steps)
  IN  \E id \in DOMAIN a : id \in Descendants(a, a[id], Cardinality(DOMAIN a))

\* PlannerAgent._validate_dag: on a cycle every depends_on is emptied.
validate_dag(steps) ==
  IF has_cycle(steps)
  THEN [i \in DOMAIN steps |-> [steps[i] EXCEPT !.depends_on = {}]]
  ELSE steps

\* PlannerAgent._build_plan
build_plan(raw) ==
  Plan(1, validate_dag([i \in DOMAIN raw |-> Step(raw[i].step_id, raw[i].depends_on)]))

\* PlannerAgent.create_plan: every plan it can build from an answer. (Its
\* _fallback_plan, used when the generation call fails, is one fixed acyclic
\* plan of seven steps with distinct ids and resolved dependencies.)
PlannerPlans == {build_plan(r) : r \in RawPlans}

\* ----------------------------------------------------------- Replanner
Strategies == {"retry", "insert", "skip", "escalate", "unknown"}

PlanIds(p) == {p.steps[i].step_id : i \in DOMAIN p.steps}

\* modified_by_id[id]: the last non-new entry of modified_steps with that id.
modified_by_id(modified_steps) ==
  [id \in {modified_steps[k].step_id :
             k \in {j \in DOMAIN modified_steps : ~modified_steps[j].is_new}} |->
     LET last == CHOOSE k \in DOMAIN modified_steps :
                   /\ modified_steps[k].step_id = id
                   /\ ~modified_steps[k].is_new
                   /\ \A j \in DOMAIN modified_steps :
                        (modified_steps[j].step_id = id /\ ~modified_steps[j].is_new)
                          => j <= k
     IN  modified_steps[last]]

\* The copy of one existing step, mutated: the strategy's status change dropped.
copy_step_no_status(s, failed_id, strategy, edits) ==
  IF s.step_id \in DOMAIN edits /\ s.status # "completed"
       /\ edits[s.step_id].has_depends_on
  THEN [s EXCEPT !.depends_on = edits[s.step_id].depends_on]
  ELSE s

\* The copy of one existing step (first loop of _apply_modifications).
copy_step(s, failed_id, strategy, edits) ==
  LET edited ==
        IF s.step_id \in DOMAIN edits /\ s.status # "completed"
             /\ edits[s.step_id].has_depends_on
        THEN [s EXCEPT !.depends_on = edits[s.step_id].depends_on]
        ELSE s
  IN  IF s.step_id # failed_id THEN edited
      ELSE IF strategy = "retry"
        THEN [edited EXCEPT !.status = "pending", !.retry_count = 0,
                            !.error_message = "none", !.result_payload = "none"]
      ELSE IF strategy = "skip"
        THEN [edited EXCEPT !.status = "skipped"]
      ELSE IF strategy = "escalate"
        THEN [edited EXCEPT !.status = "failed", !.error_message = "escalated"]
      ELSE edited

\* The insertion, mutated: the is_new entries are dropped.
inserted_steps_none(failed, modified_steps) == <<>>

\* The steps built from the is_new entries (insert only), in answer order.
inserted_steps(failed, modified_steps) ==
  LET IsNew(ms) == ms.is_new
      news == SelectSeq(modified_steps, IsNew)
  IN  [k \in DOMAIN news |->
         Step(news[k].step_id,
              IF news[k].has_depends_on /\ news[k].depends_on # {}
              THEN news[k].depends_on ELSE failed.depends_on)]

\* ReplannerAgent._apply_modifications
apply_modifications(old_plan, f, replan_data) ==
  LET failed == old_plan.steps[f]
      strategy == replan_data.strategy
      edits == modified_by_id(replan_data.modified_steps)
      copies == [i \in DOMAIN old_plan.steps |->
                   copy_step(old_plan.steps[i], failed.step_id, strategy, edits)]
      added == inserted_steps(failed, replan_data.modified_steps)
      inserted_ids == {added[k].step_id : k \in DOMAIN added}
      all == copies \o added
      reset(s) ==
        IF s.step_id = failed.step_id
        THEN [s EXCEPT !.status = "pending", !.retry_count = 0,
                       !.depends_on = s.depends_on \cup inserted_ids,
                       !.error_message = "none", !.result_payload = "none"]
        ELSE s
  IN  IF strategy = "insert"
      THEN Plan(old_plan.version + 1, [i \in DOMAIN all |-> reset(all[i])])
      ELSE Plan(old_plan.version + 1, copies)

\* ReplannerAgent._simple_retry
simple_retry(plan_, f) ==
  LET failed_id == plan_.steps[f].step_id
      one(s) ==
        IF s.step_id # failed_id THEN s
        ELSE IF s.retry_count >= s.max_retries
          THEN [s EXCEPT !.status = "failed", !.error_message = "hard_cap"]
          ELSE [s EXCEPT !.status = "pending", !.retry_count = s.retry_count + 1,
                         !.error_message = "none", !.result_payload = "none"]
  IN  Plan(plan_.version + 1, [i \in DOMAIN plan_.steps |-> one(plan_.steps[i])])

\* What the language model may answer to the Replanner: a strategy and a
\* modified_steps list of up to MaxModified entries. An entry either edits the
\* depends_on of an existing step, or is new (is_new), with an id that is fresh
\* ("r1", "r2": also stands for a generated replan_* id) or repeats the failed
\* step's, and a depends_on that is absent or names the failed step.
ModifiedEntries(p, f) ==
  {[step_id |-> id, is_new |-> FALSE, has_depends_on |-> TRUE, depends_on |-> d] :
     id \in PlanIds(p), d \in {{}, {"zz"}}}
  \cup
  {[step_id |-> id, is_new |-> TRUE, has_depends_on |-> FALSE, depends_on |-> {}] :
     id \in {"r1", "r2", p.steps[f].step_id}}
  \cup
  {[step_id |-> id, is_new |-> TRUE, has_depends_on |-> TRUE,
    depends_on |-> {p.steps[f].step_id}] :
     id \in {"r1", "r2", p.steps[f].step_id}}

\* The answers with a modified_steps list of up to n entries.
Answers(p, f, n) ==
  {[strategy |-> st, modified_steps |-> m] :
     st \in Strategies,
     m \in UNION {[1..k -> ModifiedEntries(p, f)] : k \in 0..n}}

ReplanAnswers(p, f) == Answers(p, f, MaxModified)

\* ReplannerAgent.replan: every plan it can return for failed step f. A fault of
\* the generation call (or of handling its answer) ends in _simple_retry.
replan(p, f) ==
  {apply_modifications(p, f, a) : a \in ReplanAnswers(p, f)} \cup {simple_retry(p, f)}

\* ------------------------------------------------------ the plans table
\* A row of the plans table for plan p: the is_active column and the json dump
\* (version, steps). Every Plan the Planner or Replanner builds has
\* is_active = True, and nothing assigns the attribute afterwards.
Row(p, active) == [version |-> p.version, is_active |-> active, steps |-> p.steps]

\* PlanRepository.create, mutated: the insert replaces the latest row.
PlanRepository_create_replace(db, p) ==
  IF db = <<>> THEN <<Row(p, TRUE)>> ELSE [db EXCEPT ![Len(db)] = Row(p, TRUE)]

\* PlanRepository.create, mutated: the row is inserted inactive.
PlanRepository_create_inactive(db, p) == Append(db, Row(p, FALSE))

\* PlanRepository.create: the plan has a fresh id, so the insert adds a row.
PlanRepository_create(db, p) == Append(db, Row(p, TRUE))

\* PlanRepository.update: rewrites the row of plan.id with the plan's dump and
\* its is_active attribute.
PlanRepository_update(db, id, p) ==
  IF id \in DOMAIN db THEN [db EXCEPT ![id] = Row(p, TRUE)] ELSE db

\* PlanRepository.deactivate_for_goal, mutated: nothing is deactivated.
deactivate_for_goal_noop(db) == db

\* PlanRepository.deactivate_for_goal: clears is_active of every row of the goal.
deactivate_for_goal(db) == [r \in DOMAIN db |-> [db[r] EXCEPT !.is_active = FALSE]]

\* StepRepository.update_step_in_plan(plan_id, step_id, status=FAILED,
\* error_message=...): the first step of the row with that step_id is updated.
update_step_in_plan(db, id, step_id, st, msg) ==
  IF id \notin DOMAIN db THEN db
  ELSE LET js == {j \in DOMAIN db[id].steps : db[id].steps[j].step_id = step_id}
       IN  IF js = {} THEN db
           ELSE LET j == CHOOSE x \in js : \A y \in js : x <= y
                IN  [db EXCEPT ![id].steps[j].status = st,
                               ![id].steps[j].error_message = msg]

\* sorted(versions, key=version): a stable sort of the rows by version.
RECURSIVE sorted_by_version(_)
sorted_by_version(rows) ==
  IF rows = <<>> THEN <<>>
  ELSE LET m == CHOOSE i \in DOMAIN rows :
                  /\ \A j \in DOMAIN rows : rows[i].version <= rows[j].version
                  /\ \A j \in 1..(i - 1) : rows[j].version > rows[i].version
           rest == [k \in 1..(Len(rows) - 1) |-> IF k < m THEN rows[k] ELSE rows[k + 1]]
       IN  <<rows[m]>> \o sorted_by_version(rest)

\* PlanRepository.get_versions_for_goal
get_versions_for_goal(db) == sorted_by_version(db)

\* PlanRepository.get_active_for_goal: the latest row with is_active = 1.
get_active_for_goal(db) ==
  LET as == {r \in DOMAIN db : db[r].is_active}
  IN  IF as = {} THEN 0 ELSE CHOOSE r \in as : \A q \in as : q <= r

\* ---------------------------------------------------------------- state
VARIABLES
  pc,             \* where process_goal / _execute_plan stands
  demo,           \* the goal's raw_input contains DEMO-SAFE-001
  goal_status,    \* the persisted Goal.status
  plan,           \* the in-memory plan _execute_plan works on
  iteration,      \* _execute_plan's iteration counter
  ready_steps,    \* this iteration's ready_steps (positions in plan.steps)
  results,        \* parallel_results: per ready step "new" | "ok" | "exc"
  cursor,         \* position of the loop over parallel_results
  needs_replan,   \* the parallel path's needs_replan flag
  events,         \* the event types broadcast so far
  memory,         \* number of MemoryRepository.store calls that returned
  iter_exec,      \* history: executor calls per step position, this iteration
  ever_completed, \* history: step positions that have been completed
  last_eval,      \* history: the latest evaluation (step position, result, number)
  ceiling_iters,  \* history: iterations in which a step reached its ceiling
  faulted,        \* history: a call raised
  query,          \* results of the plan queries (PlanSpec only)
  db_plans,       \* the plans table: rows in rowid order (a plan's id is its rowid)
  plan_id,        \* the id of the in-memory plan
  active_plan_id, \* the persisted Goal.active_plan_id (0: None)
  capped,         \* history: step positions the simple-retry hard cap failed
  rp,             \* one call of the Replanner's plan rewriting (ReplanSpec only)
  gw,             \* one call of LLMGateway.generate (GatewaySpec only)
  ex,             \* one call of ExecutorAgent.execute_step (ExecutorSpec only)
  bus,            \* the Engine's listeners and one broadcast (BusSpec only)
  sub,            \* one live event subscription and its goal's run (StreamSpec only)
  gs,             \* one call of LLMGateway.generate_structured (StructuredSpec only)
  em              \* one goal run and the events it broadcasts, in order (EmitSpec only)

vars ==
  <<pc, demo, goal_status, plan, iteration, ready_steps, results, cursor,
    needs_replan, events, memory, iter_exec, ever_completed, last_eval,
    ceiling_iters, faulted, query, db_plans, plan_id, active_plan_id, capped,
    rp, gw, ex, bus, sub, gs, em>>

\* The persisted plan and goal reference; the variables of the other
\* specifications.
dbvars == <<db_plans, plan_id, active_plan_id>>
morevars == <<gs, em>>
subvars == <<ex, bus, sub, morevars>>
auxvars == <<capped, rp, gw, subvars>>

NoPlan == Plan(0, <<>>)
NoEval == [step |-> 0, result |-> "none", n |-> 0]
NoQuery == [asked |-> FALSE, ready |-> <<>>, complete |-> FALSE, failed |-> FALSE]
NoReplan == [asked |-> FALSE]
NoCall == [pc |-> "idle"]
NoExec == [pc |-> "idle"]
NoBus == [pc |-> "idle"]
NoSub == [pc |-> "idle"]
NoStruct == [pc |-> "idle"]
NoEmit == [pc |-> "idle"]

\* The variables of the specifications of single calls, outside a call.
MoreIdle == gs = NoStruct /\ em = NoEmit
SubIdle == ex = NoExec /\ bus = NoBus /\ sub = NoSub /\ MoreIdle

\* The state when process_goal is entered: routes.create_goal has persisted the
\* goal with status received.
Init ==
  /\ pc = "start"
  /\ demo \in BOOLEAN
  /\ goal_status = "received"
  /\ plan = NoPlan
  /\ iteration = 0
  /\ ready_steps = <<>>
  /\ results = <<>>
  /\ cursor = 0
  /\ needs_replan = FALSE
  /\ events = {}
  /\ memory = 0
  /\ iter_exec = <<>>
  /\ ever_completed = {}
  /\ last_eval = NoEval
  /\ ceiling_iters = 0
  /\ faulted = FALSE
  /\ query = NoQuery
  /\ db_plans = <<>>
  /\ plan_id = 0
  /\ active_plan_id = 0
  /\ capped = {}
  /\ rp = NoReplan
  /\ gw = NoCall
  /\ SubIdle

\* A call raised inside process_goal's try block: control moves to the handler.
Raise ==
  /\ pc' = "handler"
  /\ faulted' = TRUE

\* History: the step positions that _simple_retry failed at the hard cap, after
\* the replan of step f returned np.
hard_capped(p, f, np) ==
  IF np = simple_retry(p, f) /\ p.steps[f].retry_count >= p.steps[f].max_retries
  THEN capped \cup {f} ELSE capped

\* The loop condition of _execute_plan, mutated: no iteration ceiling.
loop_continues_unbounded(p, it) == ~is_complete(p) /\ it < max_plan_iterations + 2

\* while not plan.is_complete() and iteration < max_plan_iterations
loop_continues(p, it) == ~is_complete(p) /\ it < max_plan_iterations

\* step.retry_count >= step.max_retries (after the increment)
at_ceiling(s) == s.retry_count >= s.max_retries

\* The retry branch, mutated: the counter is reset.
mark_retrying_reset(s) ==
  [s EXCEPT !.status = "pending", !.error_message = "eval", !.retry_count = 0]

\* Simple retry: reset to pending (counter already incremented).
mark_retrying(s) == [s EXCEPT !.status = "pending", !.error_message = "eval"]

mark_failed(s) == [s EXCEPT !.status = "failed", !.error_message = "eval"]

mark_completed(s) == [s EXCEPT !.status = "completed", !.result_payload = "out"]

\* Handling of one evaluation outcome (the same in both paths).
evaluated(s, res) ==
  IF res = "success" THEN mark_completed(s)
  ELSE LET t == [s EXCEPT !.retry_count = s.retry_count + 1]
       IN  IF at_ceiling(t) THEN mark_failed(t) ELSE mark_retrying(t)

SetStep(p, i, s) == [p EXCEPT !.steps[i] = s]

\* ------------------------------------------------- process_goal: planning
\* GoalRepository.update_status(PLANNING) and the goal_status broadcast. In
\* the DEMO-SAFE branch the same two calls come first.
BeginPlanning ==
  /\ pc = "start"
  /\ goal_status' = "planning"
  /\ events' = events \cup {"goal_status"}
  /\ pc' = IF demo THEN "demo_plan" ELSE "plan"
  /\ UNCHANGED <<demo, plan, iteration, ready_steps, results, cursor, needs_replan,
                 memory, iter_exec, ever_completed, last_eval, ceiling_iters,
                 faulted, query,
                 dbvars, auxvars>>

BeginPlanningFault ==
  /\ pc = "start"
  /\ Raise
  /\ UNCHANGED <<demo, goal_status, plan, iteration, ready_steps, results, cursor,
                 needs_replan, events, memory, iter_exec, ever_completed, last_eval,
                 ceiling_iters, query,
                 dbvars, auxvars>>

\* DEMO-SAFE branch: Step(step_id=..., title=..., status=...) leaves out the
\* required fields description and expected_outcome, so building the mock plan
\* raises a validation error before anything is persisted.
DemoMockPlan ==
  /\ pc = "demo_plan"
  /\ Raise
  /\ UNCHANGED <<demo, goal_status, plan, iteration, ready_steps, results, cursor,
                 needs_replan, events, memory, iter_exec, ever_completed, last_eval,
                 ceiling_iters, query,
                 dbvars, auxvars>>

\* planner.create_plan, PlanRepository.create, update_status(EXECUTING) and the
\* plan_created broadcast.
CreatePlan ==
  /\ pc = "plan"
  /\ \E p \in PlannerPlans :
       /\ plan' = p
       /\ db_plans' = PlanRepository_create(db_plans, p)
  /\ plan_id' = Len(db_plans')
  /\ active_plan_id' = plan_id'
  /\ goal_status' = "executing"
  /\ events' = events \cup {"plan_created"}
  /\ iteration' = 0
  /\ pc' = "loop"
  /\ UNCHANGED <<demo, ready_steps, results, cursor, needs_replan, memory, iter_exec,
                 ever_completed, last_eval, ceiling_iters, faulted, query,
                 auxvars>>

\* The planning phase raises: in create_plan or PlanRepository.create (nothing
\* is persisted), or in update_status after the plan was persisted.
CreatePlanFault ==
  /\ pc = "plan"
  /\ \/ UNCHANGED <<plan, db_plans, plan_id>>
     \/ \E p \in PlannerPlans :
          /\ plan' = p
          /\ db_plans' = PlanRepository_create(db_plans, p)
          /\ plan_id' = Len(db_plans')
  /\ Raise
  /\ UNCHANGED <<demo, goal_status, iteration, ready_steps, results, cursor,
                 needs_replan, events, memory, iter_exec, ever_completed, last_eval,
                 ceiling_iters, query,
                 active_plan_id, auxvars>>

\* ------------------------------------------- _execute_plan: the loop head
\* The while test, iteration += 1, get_ready_steps and the choice of path.
LoopHead ==
  /\ pc = "loop"
  /\ IF ~loop_continues(plan, iteration)
     THEN /\ pc' = "finish"
          /\ UNCHANGED <<iteration, ready_steps, results, iter_exec>>
     ELSE LET ready == get_ready_steps(plan)
          IN  /\ iteration' = iteration + 1
              /\ ready_steps' = ready
              /\ iter_exec' = [i \in DOMAIN plan.steps |-> 0]
              /\ results' = IF Len(ready) > 1 THEN [k \in DOMAIN ready |-> "new"]
                            ELSE <<>>
              /\ pc' = IF ready = <<>> THEN "finish"
                       ELSE IF Len(ready) > 1 THEN "par_exec"
                       ELSE "seq_exec"
  /\ cursor' = 0
  /\ needs_replan' = FALSE
  /\ UNCHANGED <<demo, goal_status, plan, events, memory, ever_completed, last_eval,
                 ceiling_iters, faulted, query,
                 dbvars, auxvars>>

\* -------------------------------------------------- the sequential path
\* Mark in_progress, persist, broadcast, gather results, executor.execute_step.
SeqExecute ==
  /\ pc = "seq_exec"
  /\ LET i == ready_steps[1]
     IN  /\ plan' = SetStep(plan, i, [plan.steps[i] EXCEPT !.status = "in_progress"])
         /\ iter_exec' = [iter_exec EXCEPT ![i] = @ + 1]
  /\ db_plans' = PlanRepository_update(db_plans, plan_id, plan')
  /\ events' = events \cup {"step_update"}
  /\ pc' = "seq_eval"
  /\ UNCHANGED <<demo, goal_status, iteration, ready_steps, results, cursor,
                 needs_replan, memory, ever_completed, last_eval, ceiling_iters,
                 faulted, query,
                 plan_id, active_plan_id, auxvars>>

\* The first persistence call after the status assignment raises.
SeqExecuteFault ==
  /\ pc = "seq_exec"
  /\ LET i == ready_steps[1]
     IN  plan' = SetStep(plan, i, [plan.steps[i] EXCEPT !.status = "in_progress"])
  /\ Raise
  /\ UNCHANGED <<demo, goal_status, iteration, ready_steps, results, cursor,
                 needs_replan, events, memory, iter_exec, ever_completed, last_eval,
                 ceiling_iters, query,
                 dbvars, auxvars>>

\* Mark evaluating, evaluator.evaluate, and the handling of the outcome.
SeqEvaluate ==
  /\ pc = "seq_eval"
  /\ \E res \in EvalResult :
       LET i == ready_steps[1]
           s == evaluated(plan.steps[i], res)
       IN  /\ plan' = SetStep(plan, i, s)
           /\ db_plans' =
                IF s.status = "failed"
                THEN update_step_in_plan(db_plans, plan_id, s.step_id, "failed", "eval")
                ELSE PlanRepository_update(db_plans, plan_id, plan')
           /\ last_eval' = [step |-> i, result |-> res, n |-> last_eval.n + 1]
           /\ ever_completed' = IF s.status = "completed"
                                THEN ever_completed \cup {i} ELSE ever_completed
           /\ ceiling_iters' = IF s.status = "failed"
                               THEN ceiling_iters + 1 ELSE ceiling_iters
           /\ pc' = IF s.status = "failed" THEN "seq_replan" ELSE "loop"
  /\ events' = events \cup {"step_update"}
  /\ UNCHANGED <<demo, goal_status, iteration, ready_steps, results, cursor,
                 needs_replan, memory, iter_exec, faulted, query,
                 plan_id, active_plan_id, auxvars>>

\* A persistence call of the outcome handling raises.
SeqEvaluateFault ==
  /\ pc = "seq_eval"
  /\ LET i == ready_steps[1]
     IN  plan' = SetStep(plan, i, [plan.steps[i] EXCEPT !.status = "evaluating"])
  /\ Raise
  /\ UNCHANGED <<demo, goal_status, iteration, ready_steps, results, cursor,
                 needs_replan, events, memory, iter_exec, ever_completed, last_eval,
                 ceiling_iters, query,
                 dbvars, auxvars>>

\* replanning broadcast, deactivate_for_goal, replanner.replan,
\* PlanRepository.create, plan = new_plan, plan_created broadcast, break.
SeqReplan ==
  /\ pc = "seq_replan"
  /\ \E np \in replan(plan, ready_steps[1]) :
       /\ plan' = np
       /\ db_plans' = PlanRepository_create(deactivate_for_goal(db_plans), np)
       /\ capped' = hard_capped(plan, ready_steps[1], np)
  /\ plan_id' = Len(db_plans')
  /\ events' = events \cup {"replanning", "plan_created"}
  /\ pc' = "finish"
  /\ UNCHANGED <<demo, goal_status, iteration, ready_steps, results, cursor,
                 needs_replan, memory, iter_exec, ever_completed, last_eval,
                 ceiling_iters, faulted, query,
                 active_plan_id, rp, gw, subvars>>

SeqReplanFault ==
  /\ pc = "seq_replan"
  /\ events' = events \cup {"replanning"}
  /\ db_plans' \in {db_plans, deactivate_for_goal(db_plans)}
  /\ Raise
  /\ UNCHANGED <<demo, goal_status, plan, iteration, ready_steps, results, cursor,
                 needs_replan, memory, iter_exec, ever_completed, last_eval,
                 ceiling_iters, query,
                 plan_id, active_plan_id, auxvars>>

\* ---------------------------------------------------- the parallel path
\* asyncio.gather returns once every execute_single_step has settled.
AfterTask(res) ==
  IF \A k \in DOMAIN res : res[k] # "new" THEN "par_eval" ELSE "par_exec"

\* execute_single_step of the k-th ready step runs to its end: mark
\* in_progress, persist, broadcast, gather results, executor.execute_step.
ParExecute(k) ==
  /\ pc = "par_exec"
  /\ results[k] = "new"
  /\ LET i == ready_steps[k]
     IN  /\ plan' = SetStep(plan, i, [plan.steps[i] EXCEPT !.status = "in_progress"])
         /\ iter_exec' = [iter_exec EXCEPT ![i] = @ + 1]
  /\ db_plans' = PlanRepository_update(db_plans, plan_id, plan')
  /\ results' = [results EXCEPT ![k] = "ok"]
  /\ events' = events \cup {"step_update"}
  /\ pc' = AfterTask(results')
  /\ cursor' = 1
  /\ UNCHANGED <<demo, goal_status, iteration, ready_steps, needs_replan, memory,
                 ever_completed, last_eval, ceiling_iters, faulted, query,
                 plan_id, active_plan_id, auxvars>>

\* execute_single_step of the k-th ready step raises in a persistence call
\* after the status assignment: gather(return_exceptions=True) keeps the
\* exception as that step's result.
ParExecuteFault(k) ==
  /\ pc = "par_exec"
  /\ results[k] = "new"
  /\ LET i == ready_steps[k]
     IN  plan' = SetStep(plan, i, [plan.steps[i] EXCEPT !.status = "in_progress"])
  /\ results' = [results EXCEPT ![k] = "exc"]
  /\ faulted' = TRUE
  /\ pc' = AfterTask(results')
  /\ cursor' = 1
  /\ UNCHANGED <<demo, goal_status, iteration, ready_steps, needs_replan, events,
                 memory, iter_exec, ever_completed, last_eval, ceiling_iters, query,
                 dbvars, auxvars>>

\* Where the loop over parallel_results goes after entry `cursor`.
AfterResult(replanning) ==
  IF cursor < Len(ready_steps) THEN "par_eval"
  ELSE IF replanning THEN "par_replan" ELSE "loop"

\* for result in parallel_results: an exception is logged and skipped.
ParSkipException ==
  /\ pc = "par_eval"
  /\ results[cursor] = "exc"
  /\ cursor' = cursor + 1
  /\ pc' = AfterResult(needs_replan)
  /\ UNCHANGED <<demo, goal_status, plan, iteration, ready_steps, results,
                 needs_replan, events, memory, iter_exec, ever_completed, last_eval,
                 ceiling_iters, faulted, query,
                 dbvars, auxvars>>

\* for result in parallel_results: mark evaluating, evaluator.evaluate, and the
\* handling of the outcome.
ParEvaluate ==
  /\ pc = "par_eval"
  /\ results[cursor] = "ok"
  /\ \E res \in EvalResult :
       LET i == ready_steps[cursor]
           s == evaluated(plan.steps[i], res)
       IN  /\ plan' = SetStep(plan, i, s)
           /\ db_plans' =
                IF s.status = "failed"
                THEN update_step_in_plan(db_plans, plan_id, s.step_id, "failed", "eval")
                ELSE PlanRepository_update(db_plans, plan_id, plan')
           /\ last_eval' = [step |-> i, result |-> res, n |-> last_eval.n + 1]
           /\ ever_completed' = IF s.status = "completed"
                                THEN ever_completed \cup {i} ELSE ever_completed
           /\ needs_replan' = (needs_replan \/ s.status = "failed")
           /\ ceiling_iters' = IF s.status = "failed" /\ ~needs_replan
                               THEN ceiling_iters + 1 ELSE ceiling_iters
           /\ pc' = AfterResult(needs_replan')
  /\ cursor' = cursor + 1
  /\ events' = events \cup {"step_update"}
  /\ UNCHANGED <<demo, goal_status, iteration, ready_steps, results, memory,
                 iter_exec, faulted, query,
                 plan_id, active_plan_id, auxvars>>

\* A persistence call of the outcome handling raises: it is not caught inside
\* _execute_plan.
ParEvaluateFault ==
  /\ pc = "par_eval"
  /\ results[cursor] = "ok"
  /\ LET i == ready_steps[cursor]
     IN  plan' = SetStep(plan, i, [plan.steps[i] EXCEPT !.status = "evaluating"])
  /\ Raise
  /\ UNCHANGED <<demo, goal_status, iteration, ready_steps, results, cursor,
                 needs_replan, events, memory, iter_exec, ever_completed, last_eval,
                 ceiling_iters, query,
                 dbvars, auxvars>>

\* next((s for s in ready_steps if s.status == FAILED), None)
first_failed(p, ready) ==
  LET ks == {k \in DOMAIN ready : p.steps[ready[k]].status = "failed"}
  IN  IF ks = {} THEN 0
      ELSE ready[CHOOSE k \in ks : \A j \in ks : k <= j]

\* if needs_replan: the replan of the first failed step of the batch; the loop
\* goes on with the new plan.
ParReplan ==
  /\ pc = "par_replan"
  /\ LET f == first_failed(plan, ready_steps)
     IN  IF f = 0 THEN UNCHANGED <<plan, events, db_plans, plan_id, capped>>
         ELSE /\ \E np \in replan(plan, f) :
                   /\ plan' = np
                   /\ db_plans' = PlanRepository_create(deactivate_for_goal(db_plans), np)
                   /\ capped' = hard_capped(plan, f, np)
              /\ plan_id' = Len(db_plans')
              /\ events' = events \cup {"replanning", "plan_created"}
  /\ pc' = "loop"
  /\ UNCHANGED <<demo, goal_status, iteration, ready_steps, results, cursor,
                 needs_replan, memory, iter_exec, ever_completed, last_eval,
                 ceiling_iters, faulted, query,
                 active_plan_id, rp, gw, subvars>>

ParReplanFault ==
  /\ pc = "par_replan"
  /\ first_failed(plan, ready_steps) # 0
  /\ events' = events \cup {"replanning"}
  /\ db_plans' \in {db_plans, deactivate_for_goal(db_plans)}
  /\ Raise
  /\ UNCHANGED <<demo, goal_status, plan, iteration, ready_steps, results, cursor,
                 needs_replan, memory, iter_exec, ever_completed, last_eval,
                 ceiling_iters, query,
                 plan_id, active_plan_id, auxvars>>

\* The completion phase, mutated: the goal is completed whatever the plan.
Finish_always_completed ==
  /\ pc = "finish"
  /\ goal_status' = "completed"
  /\ events' = events \cup {"goal_completed"}
  /\ pc' = "store"
  /\ UNCHANGED <<demo, plan, iteration, ready_steps, results, cursor, needs_replan,
                 memory, iter_exec, ever_completed, last_eval, ceiling_iters,
                 faulted, query,
                 dbvars, auxvars>>

\* ------------------------------------------------ process_goal: completion
\* if plan.is_complete(): update_status(COMPLETED) and goal_completed;
\* else: update_status(FAILED) and goal_failed.
Finish ==
  /\ pc = "finish"
  /\ IF is_complete(plan)
     THEN /\ goal_status' = "completed"
          /\ events' = events \cup {"goal_completed"}
          /\ pc' = "store"
     ELSE /\ goal_status' = "failed"
          /\ events' = events \cup {"goal_failed"}
          /\ pc' = "done"
  /\ UNCHANGED <<demo, plan, iteration, ready_steps, results, cursor, needs_replan,
                 memory, iter_exec, ever_completed, last_eval, ceiling_iters,
                 faulted, query,
                 dbvars, auxvars>>

FinishFault ==
  /\ pc = "finish"
  /\ Raise
  /\ UNCHANGED <<demo, goal_status, plan, iteration, ready_steps, results, cursor,
                 needs_replan, events, memory, iter_exec, ever_completed, last_eval,
                 ceiling_iters, query,
                 dbvars, auxvars>>

\* MemoryRepository.store after goal_completed.
StoreMemory ==
  /\ pc = "store"
  /\ memory' = memory + 1
  /\ pc' = "done"
  /\ UNCHANGED <<demo, goal_status, plan, iteration, ready_steps, results, cursor,
                 needs_replan, events, iter_exec, ever_completed, last_eval,
                 ceiling_iters, faulted, query,
                 dbvars, auxvars>>

StoreMemoryFault ==
  /\ pc = "store"
  /\ Raise
  /\ UNCHANGED <<demo, goal_status, plan, iteration, ready_steps, results, cursor,
                 needs_replan, events, memory, iter_exec, ever_completed, last_eval,
                 ceiling_iters, query,
                 dbvars, auxvars>>

\* except Exception: update_status(FAILED) and the error broadcast.
Handler ==
  /\ pc = "handler"
  /\ goal_status' = "failed"
  /\ events' = events \cup {"error"}
  /\ pc' = "done"
  /\ UNCHANGED <<demo, plan, iteration, ready_steps, results, cursor, needs_replan,
                 memory, iter_exec, ever_completed, last_eval, ceiling_iters,
                 faulted, query,
                 dbvars, auxvars>>

\* update_status inside the handler raises: process_goal raises.
HandlerFault ==
  /\ pc = "handler"
  /\ pc' = "raised"
  /\ UNCHANGED <<demo, goal_status, plan, iteration, ready_steps, results, cursor,
                 needs_replan, events, memory, iter_exec, ever_completed, last_eval,
                 ceiling_iters, faulted, query,
                 dbvars, auxvars>>

Next ==
  \/ BeginPlanning
  \/ BeginPlanningFault
  \/ DemoMockPlan
  \/ CreatePlan
  \/ CreatePlanFault
  \/ LoopHead
  \/ SeqExecute
  \/ SeqExecuteFault
  \/ SeqEvaluate
  \/ SeqEvaluateFault
  \/ SeqReplan
  \/ SeqReplanFault
  \/ \E k \in DOMAIN results : ParExecute(k)
  \/ \E k \in DOMAIN results : ParExecuteFault(k)
  \/ ParSkipException
  \/ ParEvaluate
  \/ ParEvaluateFault
  \/ ParReplan
  \/ ParReplanFault
  \/ Finish
  \/ FinishFault
  \/ StoreMemory
  \/ StoreMemoryFault
  \/ Handler
  \/ HandlerFault

Spec == Init /\ [][Next]_vars

\* ------------------------------------------------- the plan queries alone
\* Longest step list of the plans the queries are applied to.
MaxModelSteps == 2

\* Plans in any state: every status, duplicate ids, dependencies that name a
\* step, the step itself, or no step.
ModelPlans ==
  {Plan(1, st) :
     st \in UNION {[1..n -> [step_id : {"s1", "s2"}, status : StepStatus,
                             depends_on : SUBSET {"s1", "zz"}, retry_count : {0},
                             max_retries : {default_max_retries},
                             result_payload : {"none"}, error_message : {"none"}]]
                   : n \in 0..MaxModelSteps}}

PlanInit ==
  /\ pc = "model"
  /\ plan \in ModelPlans
  /\ demo = FALSE
  /\ goal_status = "executing"
  /\ iteration = 0
  /\ ready_steps = <<>>
  /\ results = <<>>
  /\ cursor = 0
  /\ needs_replan = FALSE
  /\ events = {}
  /\ memory = 0
  /\ iter_exec = <<>>
  /\ ever_completed = {}
  /\ last_eval = NoEval
  /\ ceiling_iters = 0
  /\ faulted = FALSE
  /\ query = NoQuery
  /\ db_plans = <<>>
  /\ plan_id = 0
  /\ active_plan_id = 0
  /\ capped = {}
  /\ rp = NoReplan
  /\ gw = NoCall
  /\ SubIdle

\* get_ready_steps, is_complete and has_failed_steps applied to the plan.
QueryPlan ==
  /\ pc = "model"
  /\ query' = [asked |-> TRUE, ready |-> get_ready_steps(plan),
               complete |-> is_complete(plan), failed |-> has_failed_steps(plan)]
  /\ pc' = "model_done"
  /\ UNCHANGED <<demo, goal_status, plan, iteration, ready_steps, results, cursor,
                 needs_replan, events, memory, iter_exec, ever_completed, last_eval,
                 ceiling_iters, faulted,
                 db_plans, plan_id, active_plan_id, capped, rp, gw, subvars>>

PlanNext == QueryPlan

PlanSpec == PlanInit /\ [][PlanNext]_vars

\* ------------------------------------- the Replanner's plan rewriting alone
\* Longest step list and longest modified_steps list of the plans and answers
\* the rewriting is applied to.
MaxReplanSteps == 2
MaxReplanModified == 2

\* Plans in which a step has exhausted its retry ceiling: the other steps are
\* pending, completed or failed, with or without a dependency, fresh or at the
\* ceiling, and may repeat an id.
ReplanModelPlans ==
  {Plan(1, st) :
     st \in UNION {[1..n -> {[step_id |-> id, status |-> status, depends_on |-> deps,
                             retry_count |-> rc, max_retries |-> default_max_retries,
                             result_payload |->
                               IF status = "completed" THEN "out" ELSE "none",
                             error_message |->
                               IF status = "failed" THEN "eval" ELSE "none"] :
                              id \in {"s1", "s2"},
                              status \in {"pending", "completed", "failed"},
                              deps \in {{}, {"s2"}},
                              rc \in {0, default_max_retries}}]
                   : n \in 1..MaxReplanSteps}}

ReplanInit ==
  /\ pc = "replan_model"
  /\ plan \in ReplanModelPlans
  /\ \E f \in DOMAIN plan.steps :
       /\ plan.steps[f].status = "failed"
       /\ plan.steps[f].retry_count >= plan.steps[f].max_retries
       /\ rp = [asked |-> FALSE, failed_step |-> f]
  /\ demo = FALSE
  /\ goal_status = "executing"
  /\ iteration = 0
  /\ ready_steps = <<>>
  /\ results = <<>>
  /\ cursor = 0
  /\ needs_replan = FALSE
  /\ events = {}
  /\ memory = 0
  /\ iter_exec = <<>>
  /\ ever_completed = {}
  /\ last_eval = NoEval
  /\ ceiling_iters = 0
  /\ faulted = FALSE
  /\ query = NoQuery
  /\ db_plans = <<>>
  /\ plan_id = 0
  /\ active_plan_id = 0
  /\ capped = {}
  /\ gw = NoCall
  /\ SubIdle

\* replan: the model answered, _apply_modifications builds the new version.
ApplyModifications ==
  /\ pc = "replan_model"
  /\ \E a \in Answers(plan, rp.failed_step, MaxReplanModified) :
       rp' = [asked |-> TRUE, failed_step |-> rp.failed_step, fallback |-> FALSE,
              data |-> a, new |-> apply_modifications(plan, rp.failed_step, a)]
  /\ pc' = "replan_done"
  /\ UNCHANGED <<demo, goal_status, plan, iteration, ready_steps, results, cursor,
                 needs_replan, events, memory, iter_exec, ever_completed, last_eval,
                 ceiling_iters, faulted, query, dbvars, capped, gw, subvars>>

\* replan: the generation failed, _simple_retry builds the new version.
SimpleRetry ==
  /\ pc = "replan_model"
  /\ rp' = [asked |-> TRUE, failed_step |-> rp.failed_step, fallback |-> TRUE,
            data |-> [strategy |-> "none", modified_steps |-> <<>>],
            new |-> simple_retry(plan, rp.failed_step)]
  /\ pc' = "replan_done"
  /\ UNCHANGED <<demo, goal_status, plan, iteration, ready_steps, results, cursor,
                 needs_replan, events, memory, iter_exec, ever_completed, last_eval,
                 ceiling_iters, faulted, query, dbvars, capped, gw, subvars>>

ReplanNext == ApplyModifications \/ SimpleRetry

ReplanSpec == ReplanInit /\ [][ReplanNext]_vars

\* ------------------------------------------------- LLMGateway.generate alone
\* config.LLMProvider, the length of _fallback_chain (primary, fallback,
\* tertiary) and the in-provider attempts of generate.
LLMProvider == {"ollama", "gemini", "openai"}
fallback_chain_len == 3
max_retries == 3

NoError == [p |-> 0, kind |-> "none"]
NoLog == [provider |-> "none", error |-> NoError]
NoResult == [p |-> 0, log |-> NoLog]

\* One call of generate. chain: _fallback_chain as configured; created: the
\* keys of _providers; pc: "provider" (at the head of the provider loop),
\* "invoke" (before an ainvoke attempt), "returned", "raised"; p: the position
\* in the chain; attempt: the in-provider attempt; calls: the chain positions
\* of the ainvoke calls made so far; failed: the chain positions whose pass
\* ended in the except branch; last_error; result: what generate returned (the
\* producing position and the AgentLog); raised: the detail inside the
\* RuntimeError text; local_log: the AgentLog built before the raise;
\* recorded: the AgentLogs handed to the caller or to the log store; outcomes:
\* for each ainvoke call how it ended ("ok", "rate_limit", "error"); delays: for
\* each ainvoke call the seconds slept after it before the next attempt (0:
\* none).
Call(chain, created) ==
  [pc |-> "provider", chain |-> chain, created |-> created, p |-> 1, attempt |-> 0,
   calls |-> <<>>, failed |-> {}, last_error |-> NoError, result |-> NoResult,
   raised |-> NoError, local_log |-> NoLog, recorded |-> {},
   outcomes |-> <<>>, delays |-> <<>>]

\* except Exception as e: last_error = e; continue. After the last provider:
\* the aggregate message, the AgentLog local, raise RuntimeError(error_msg).
provider_failed(g, kind) ==
  LET e == [p |-> g.p, kind |-> kind]
      h == [g EXCEPT !.last_error = e, !.failed = @ \cup {g.p}]
  IN  IF g.p < Len(g.chain)
      THEN [h EXCEPT !.pc = "provider", !.p = g.p + 1, !.attempt = 0]
      ELSE [h EXCEPT !.pc = "raised", !.raised = e,
                     !.local_log = [provider |-> "none", error |-> e]]

\* The return, mutated: the result is kept and the loop goes on to the next
\* provider.
provider_succeeded_continue(g) ==
  LET log == [provider |-> g.chain[g.p], error |-> NoError]
      h == [g EXCEPT !.result = [p |-> g.p, log |-> log], !.recorded = @ \cup {log}]
  IN  IF g.p < Len(g.chain)
      THEN [h EXCEPT !.pc = "provider", !.p = g.p + 1, !.attempt = 0]
      ELSE [h EXCEPT !.pc = "returned"]

\* return text, log
provider_succeeded(g) ==
  LET log == [provider |-> g.chain[g.p], error |-> NoError]
  IN  [g EXCEPT !.pc = "returned", !.result = [p |-> g.p, log |-> log],
                !.recorded = @ \cup {log}]

GatewayInit ==
  /\ pc = "gateway"
  /\ \E chain \in [1..fallback_chain_len -> LLMProvider], created \in SUBSET LLMProvider :
       gw = Call(chain, created)
  /\ demo = FALSE
  /\ goal_status = "executing"
  /\ plan = NoPlan
  /\ iteration = 0
  /\ ready_steps = <<>>
  /\ results = <<>>
  /\ cursor = 0
  /\ needs_replan = FALSE
  /\ events = {}
  /\ memory = 0
  /\ iter_exec = <<>>
  /\ ever_completed = {}
  /\ last_eval = NoEval
  /\ ceiling_iters = 0
  /\ faulted = FALSE
  /\ query = NoQuery
  /\ db_plans = <<>>
  /\ plan_id = 0
  /\ active_plan_id = 0
  /\ capped = {}
  /\ rp = NoReplan
  /\ SubIdle

gwframe ==
  <<pc, demo, goal_status, plan, iteration, ready_steps, results, cursor,
    needs_replan, events, memory, iter_exec, ever_completed, last_eval,
    ceiling_iters, faulted, query, dbvars, capped, rp, subvars>>

\* llm = self._get_or_create(provider): the cached model, or a new one.
GetOrCreate ==
  /\ gw.pc = "provider"
  /\ gw' = [gw EXCEPT !.pc = "invoke", !.created = @ \cup {gw.chain[gw.p]}]
  /\ UNCHANGED gwframe

\* _create_provider raises (unknown provider, missing package or key).
GetOrCreateFault ==
  /\ gw.pc = "provider"
  /\ gw.chain[gw.p] \notin gw.created
  /\ gw' = provider_failed(gw, "create")
  /\ UNCHANGED gwframe

\* The ainvoke call of the current attempt is made and ends as `outcome`.
invoked(g, outcome) ==
  [g EXCEPT !.calls = Append(@, g.p), !.outcomes = Append(@, outcome),
            !.delays = Append(@, 0)]

\* delay_time = 5 * (attempt + 1)
delay_time(attempt) == 5 * (attempt + 1)

\* except Exception as invoke_err, mutated: every error is retried.
invoke_failed_retry_all(g, kind) ==
  IF g.attempt < max_retries - 1
  THEN [g EXCEPT !.attempt = @ + 1, !.delays[Len(g.delays)] = delay_time(g.attempt)]
  ELSE provider_failed(g, kind)

\* except Exception as invoke_err: a rate-limit error before the last attempt
\* sleeps delay_time and continues; anything else is raised to the provider
\* loop.
invoke_failed(g, kind) ==
  IF kind = "rate_limit" /\ g.attempt < max_retries - 1
  THEN [g EXCEPT !.attempt = @ + 1, !.delays[Len(g.delays)] = delay_time(g.attempt)]
  ELSE provider_failed(g, kind)

\* llm.ainvoke answers and the text and the AgentLog are built.
InvokeOk ==
  /\ gw.pc = "invoke"
  /\ gw' = provider_succeeded(invoked(gw, "ok"))
  /\ UNCHANGED gwframe

\* llm.ainvoke answers, but building the text or the AgentLog raises.
InvokeBadResponse ==
  /\ gw.pc = "invoke"
  /\ gw' = provider_failed(invoked(gw, "ok"), "response")
  /\ UNCHANGED gwframe

\* llm.ainvoke raises a rate-limit error: sleep and try again, unless this was
\* the last attempt.
InvokeRateLimited ==
  /\ gw.pc = "invoke"
  /\ gw' = invoke_failed(invoked(gw, "rate_limit"), "rate_limit")
  /\ UNCHANGED gwframe

\* llm.ainvoke raises any other error, or wait_for times out.
InvokeError ==
  /\ gw.pc = "invoke"
  /\ gw' = invoke_failed(invoked(gw, "error"), "error")
  /\ UNCHANGED gwframe

GatewayNext ==
  \/ GetOrCreate
  \/ GetOrCreateFault
  \/ InvokeOk
  \/ InvokeBadResponse
  \/ InvokeRateLimited
  \/ InvokeError

GatewaySpec == GatewayInit /\ [][GatewayNext]_vars

\* ------------------------------------------- ExecutorAgent.execute_step alone
\* Longest actions_taken list of an answer and longest required_tools list of
\* a step.
MaxActions == 2
MaxTools == 2

\* Two of the registered tools (an async and a plain handler), and a name that
\* is not registered.
Registry == {"analyze_syllabus", "create_schedule"}
ToolNames == Registry \cup {"bogus"}
is_coroutine(name) == name = "analyze_syllabus"

\* The parameters of a call: a dict the handler accepts, a dict with keys the
\* handler does not take, or a value that is no dict. What the handler does
\* with parameters it accepts: it returns, raises, or (awaiting) does not
\* finish within TOOL_TIMEOUT.
Params == {"ok", "bad_keys", "not_dict"}
Behaviours(name) ==
  IF is_coroutine(name) THEN {"returns", "raises", "hangs"} ELSE {"returns", "raises"}

NoPayload ==
  [error_code |-> "none", component |-> "none", trace |-> FALSE,
   agent_recovery_action |-> FALSE]
Payload(code, component) ==
  [error_code |-> code, component |-> component, trace |-> TRUE,
   agent_recovery_action |-> TRUE]

\* execute_tool: what crosses the boundary: the handler's result ("return"),
\* or an exception of the given type with its payload attribute.
execute_tool(name, params, behaviour) ==
  IF name \notin Registry
    THEN [type |-> "ValueError", payload |-> NoPayload]
  ELSE IF params = "not_dict"
    THEN [type |-> "AttributeError", payload |-> NoPayload]
  ELSE IF params = "bad_keys" \/ behaviour = "raises"
    THEN [type |-> "ToolExecutionError",
          payload |-> Payload("TOOL_EXECUTION_ERROR", name)]
  ELSE IF behaviour = "hangs"
    THEN [type |-> "ToolExecutionError", payload |-> Payload("TOOL_TIMEOUT", name)]
  ELSE [type |-> "return", payload |-> NoPayload]

\* ExecutorAgent._normalize_tool_error
normalize_tool_error(err) ==
  IF err.type = "ToolExecutionError" THEN err.payload
  ELSE Payload("TOOL_EXECUTION_ERROR", "Tool_Unknown")

\* One call of execute_step. pc: "generate", "tools" (the loop over
\* actions_taken), "fallback" (the loop over step.required_tools), "returned",
\* "raised", "evaluating" (the Engine has called the Evaluator with the
\* result); k: the position of the loop; via: the path that built the result;
\* gen_failed: the generation call or the handling of its answer raised;
\* tool_results; crossed: what crossed the execute_tool boundary at each call
\* of the current loop; invoked: every execute_tool call of the step (the tool
\* name, the parameters, what the handler does) with what crossed.
Exec(required_tools) ==
  [pc |-> "generate", required_tools |-> required_tools, n_actions |-> 0, k |-> 1,
   via |-> "none", gen_failed |-> FALSE, tool_results |-> <<>>, crossed |-> <<>>,
   invoked |-> <<>>]

\* One execute_tool call of the main loop and its except branch, mutated: the
\* failure of the capability leaves execute_step.
tool_called_raw(g, c, r) ==
  IF r.type = "return"
  THEN [g EXCEPT !.k = @ + 1,
                 !.tool_results = Append(@, [tool |-> c.name, status |-> "success",
                                             error_payload |-> NoPayload]),
                 !.crossed = Append(@, r),
                 !.invoked = Append(@, [call |-> c, raised |-> r])]
  ELSE [g EXCEPT !.pc = "raised", !.crossed = Append(@, r),
                 !.invoked = Append(@, [call |-> c, raised |-> r])]

\* One execute_tool call of the main loop: a success entry, or the except
\* branch's error entry with the normalized payload.
tool_called(g, c, r) ==
  [g EXCEPT !.k = @ + 1,
            !.tool_results =
               Append(@, IF r.type = "return"
                         THEN [tool |-> c.name, status |-> "success",
                               error_payload |-> NoPayload]
                         ELSE [tool |-> c.name, status |-> "error",
                               error_payload |-> normalize_tool_error(r)]),
            !.crossed = Append(@, r),
            !.invoked = Append(@, [call |-> c, raised |-> r])]

\* One execute_tool call of the offline fallback: its error entry has no
\* payload.
fallback_tool_called(g, c, r) ==
  [g EXCEPT !.k = @ + 1,
            !.tool_results =
               Append(@, [tool |-> c.name,
                          status |-> IF r.type = "return" THEN "success" ELSE "error",
                          error_payload |-> NoPayload]),
            !.crossed = Append(@, r),
            !.invoked = Append(@, [call |-> c, raised |-> r])]

\* except Exception: the offline fallback starts with an empty tool_results.
to_fallback(g) ==
  [g EXCEPT !.pc = "fallback", !.k = 1, !.gen_failed = TRUE, !.tool_results = <<>>,
            !.crossed = <<>>]

exframe ==
  <<pc, demo, goal_status, plan, iteration, ready_steps, results, cursor,
    needs_replan, events, memory, iter_exec, ever_completed, last_eval,
    ceiling_iters, faulted, query, dbvars, capped, rp, gw, bus, sub, morevars>>

ExecutorInit ==
  /\ pc = "executor"
  /\ \E rt \in UNION {[1..n -> ToolNames] : n \in 0..MaxTools} : ex = Exec(rt)
  /\ demo = FALSE
  /\ goal_status = "executing"
  /\ plan = NoPlan
  /\ iteration = 0
  /\ ready_steps = <<>>
  /\ results = <<>>
  /\ cursor = 0
  /\ needs_replan = FALSE
  /\ events = {}
  /\ memory = 0
  /\ iter_exec = <<>>
  /\ ever_completed = {}
  /\ last_eval = NoEval
  /\ ceiling_iters = 0
  /\ faulted = FALSE
  /\ query = NoQuery
  /\ db_plans = <<>>
  /\ plan_id = 0
  /\ active_plan_id = 0
  /\ capped = {}
  /\ rp = NoReplan
  /\ gw = NoCall
  /\ bus = NoBus
  /\ sub = NoSub
  /\ MoreIdle

\* llm_gateway.generate answers, the log is appended, and the answer parses to
\* an object with an actions_taken list (empty when the parse fell back).
ExecGenerate ==
  /\ ex.pc = "generate"
  /\ \E n \in 0..MaxActions : ex' = [ex EXCEPT !.pc = "tools", !.n_actions = n]
  /\ UNCHANGED exframe

\* llm_gateway.generate or AgentLogRepository.append raises, or the answer is
\* JSON but no object.
ExecGenerateFault ==
  /\ ex.pc = "generate"
  /\ ex' = to_fallback(ex)
  /\ UNCHANGED exframe

\* for action in actions_taken: execute_tool and the success or error entry.
ExecInvokeTool ==
  /\ ex.pc = "tools"
  /\ ex.k <= ex.n_actions
  /\ \E name \in ToolNames, params \in Params :
       \E b \in Behaviours(name) :
         ex' = tool_called(ex, [name |-> name, params |-> params, behaviour |-> b],
                           execute_tool(name, params, b))
  /\ UNCHANGED exframe

\* The handling of the answer raises outside the inner try: an action that is
\* no object, or an output_data that is no dict while a tool succeeded.
ExecAnswerFault ==
  /\ ex.pc = "tools"
  /\ \/ ex.k <= ex.n_actions
     \/ \E j \in DOMAIN ex.tool_results : ex.tool_results[j].status = "success"
  /\ ex' = to_fallback(ex)
  /\ UNCHANGED exframe

\* The result of the main path is returned.
ExecReturn ==
  /\ ex.pc = "tools"
  /\ ex.k > ex.n_actions
  /\ ex' = [ex EXCEPT !.pc = "returned", !.via = "llm"]
  /\ UNCHANGED exframe

\* for tool_name in step.required_tools: execute_tool with built parameters.
ExecFallbackTool ==
  /\ ex.pc = "fallback"
  /\ ex.k <= Len(ex.required_tools)
  /\ LET name == ex.required_tools[ex.k]
     IN  \E params \in {"ok", "bad_keys"}, b \in Behaviours(name) :
           ex' = fallback_tool_called(ex,
                                      [name |-> name, params |-> params, behaviour |-> b],
                                      execute_tool(name, params, b))
  /\ UNCHANGED exframe

\* The offline fallback result is returned.
ExecFallbackReturn ==
  /\ ex.pc = "fallback"
  /\ ex.k > Len(ex.required_tools)
  /\ ex' = [ex EXCEPT !.pc = "returned", !.via = "fallback"]
  /\ UNCHANGED exframe

\* The sequential path after execute_step returned: the step is marked
\* evaluating, the event is broadcast, evaluator.evaluate is called.
ExecToEvaluator ==
  /\ ex.pc = "returned"
  /\ ex' = [ex EXCEPT !.pc = "evaluating"]
  /\ UNCHANGED exframe

ExecutorNext ==
  \/ ExecGenerate
  \/ ExecGenerateFault
  \/ ExecInvokeTool
  \/ ExecAnswerFault
  \/ ExecReturn
  \/ ExecFallbackTool
  \/ ExecFallbackReturn
  \/ ExecToEvaluator

ExecutorSpec == ExecutorInit /\ [][ExecutorNext]_vars

\* --------------------------------------------- the Engine's event listeners
\* The number of listeners ever registered.
MaxListeners == 3

\* listeners: _event_listeners (a listener is named by the order of its
\* registration); next: the next listener to register; pc: "idle" or "fanout"
\* (inside _broadcast's loop); snapshot: _broadcast's local list; i: the
\* position of its loop; at_start: history, _event_listeners when the
\* broadcast took its snapshot; delivered: the listeners called with the event
\* of the latest broadcast, in call order; raised: those of them that raised;
\* n: broadcasts started.
Bus0 ==
  [pc |-> "idle", listeners |-> <<>>, next |-> 1, snapshot |-> <<>>, i |-> 1,
   at_start |-> <<>>, delivered |-> <<>>, raised |-> {}, n |-> 0]

\* list.remove: the first occurrence is removed.
list_remove(seq, l) ==
  LET js == {j \in DOMAIN seq : seq[j] = l}
  IN  IF js = {} THEN seq
      ELSE LET m == CHOOSE j \in js : \A h \in js : j <= h
           IN  [k \in 1..(Len(seq) - 1) |-> IF k < m THEN seq[k] ELSE seq[k + 1]]

\* The list _broadcast's loop runs over, mutated: _event_listeners itself.
fanout_list_live(b) == b.listeners

\* The list _broadcast's loop runs over: the copy taken under the lock.
fanout_list(b) == b.snapshot

busframe ==
  <<pc, demo, goal_status, plan, iteration, ready_steps, results, cursor,
    needs_replan, events, memory, iter_exec, ever_completed, last_eval,
    ceiling_iters, faulted, query, dbvars, capped, rp, gw, ex, sub, morevars>>

BusInit ==
  /\ pc = "bus"
  /\ bus = Bus0
  /\ demo = FALSE
  /\ goal_status = "executing"
  /\ plan = NoPlan
  /\ iteration = 0
  /\ ready_steps = <<>>
  /\ results = <<>>
  /\ cursor = 0
  /\ needs_replan = FALSE
  /\ events = {}
  /\ memory = 0
  /\ iter_exec = <<>>
  /\ ever_completed = {}
  /\ last_eval = NoEval
  /\ ceiling_iters = 0
  /\ faulted = FALSE
  /\ query = NoQuery
  /\ db_plans = <<>>
  /\ plan_id = 0
  /\ active_plan_id = 0
  /\ capped = {}
  /\ rp = NoReplan
  /\ gw = NoCall
  /\ ex = NoExec
  /\ sub = NoSub
  /\ MoreIdle

\* add_event_listener, at any time, also while a broadcast is in flight.
AddListener ==
  /\ bus.next <= MaxListeners
  /\ bus' = [bus EXCEPT !.listeners = Append(@, bus.next), !.next = @ + 1]
  /\ UNCHANGED busframe

\* remove_event_listener, at any time, also while a broadcast is in flight.
RemoveListener ==
  /\ \E l \in 1..MaxListeners :
       /\ \E j \in DOMAIN bus.listeners : bus.listeners[j] = l
       /\ bus' = [bus EXCEPT !.listeners = list_remove(@, l)]
  /\ UNCHANGED busframe

\* _broadcast: the snapshot under the lock.
BroadcastStart ==
  /\ bus.pc = "idle"
  /\ bus' = [bus EXCEPT !.pc = "fanout", !.snapshot = bus.listeners, !.i = 1,
                        !.at_start = bus.listeners, !.delivered = <<>>,
                        !.raised = {}, !.n = 1]
  /\ UNCHANGED busframe

\* _broadcast: the listener is called with the event and returns.
Deliver ==
  /\ bus.pc = "fanout"
  /\ bus.i <= Len(fanout_list(bus))
  /\ bus' = [bus EXCEPT !.delivered = Append(@, fanout_list(bus)[bus.i]), !.i = @ + 1]
  /\ UNCHANGED busframe

\* _broadcast: the listener is called with the event and raises; the
\* exception is logged.
DeliverRaises ==
  /\ bus.pc = "fanout"
  /\ bus.i <= Len(fanout_list(bus))
  /\ bus' = [bus EXCEPT !.delivered = Append(@, fanout_list(bus)[bus.i]), !.i = @ + 1,
                        !.raised = @ \cup {fanout_list(bus)[bus.i]}]
  /\ UNCHANGED busframe

\* _broadcast returns.
BroadcastEnd ==
  /\ bus.pc = "fanout"
  /\ bus.i > Len(fanout_list(bus))
  /\ bus' = [bus EXCEPT !.pc = "idle"]
  /\ UNCHANGED busframe

BusNext ==
  \/ AddListener
  \/ RemoveListener
  \/ BroadcastStart
  \/ Deliver
  \/ DeliverRaises
  \/ BroadcastEnd

BusSpec == BusInit /\ [][BusNext]_vars

\* ------------------------------------- one live event subscription of a goal
\* The number of non-terminal events the goal's run broadcasts.
MaxStreamEvents == 2

TerminalEvents == {"goal_completed", "goal_failed", "error"}

\* One goal, run in the background by start_goal_async, and one call of
\* stream_goal_events for it. run: where process_goal stands ("running",
\* "storing": after goal_completed, "handler", and the ends "completed",
\* "failed", "raised"); status: the persisted Goal.status; emitted:
\* non-terminal events broadcast; pc: where the subscription stands
\* ("none": not requested, "registered": listener added and the response
\* returned, "waiting": the generator at its loop head, "get": at
\* event_queue.get, "ended": the generator has finished, "never_started": the
\* response was discarded before the generator's first step); registered: the
\* listener is in _event_listeners; connected: the client is connected; queue:
\* event_queue; sent: the events yielded.
Sub0 ==
  [run |-> "running", status |-> "executing", emitted |-> 0, pc |-> "none",
   registered |-> FALSE, connected |-> TRUE, queue |-> <<>>, sent |-> <<>>]

\* _broadcast of an event of the goal: the subscription's listener, when
\* registered, puts it into the queue.
broadcast_to(s, ev) == IF s.registered THEN [s EXCEPT !.queue = Append(@, ev)] ELSE s

\* The generator ends: finally removes the listener.
stream_end(s) == [s EXCEPT !.pc = "ended", !.registered = FALSE]

subframe ==
  <<pc, demo, goal_status, plan, iteration, ready_steps, results, cursor,
    needs_replan, events, memory, iter_exec, ever_completed, last_eval,
    ceiling_iters, faulted, query, dbvars, capped, rp, gw, ex, bus, morevars>>

StreamInit ==
  /\ pc = "stream"
  /\ sub = Sub0
  /\ demo = FALSE
  /\ goal_status = "executing"
  /\ plan = NoPlan
  /\ iteration = 0
  /\ ready_steps = <<>>
  /\ results = <<>>
  /\ cursor = 0
  /\ needs_replan = FALSE
  /\ events = {}
  /\ memory = 0
  /\ iter_exec = <<>>
  /\ ever_completed = {}
  /\ last_eval = NoEval
  /\ ceiling_iters = 0
  /\ faulted = FALSE
  /\ query = NoQuery
  /\ db_plans = <<>>
  /\ plan_id = 0
  /\ active_plan_id = 0
  /\ capped = {}
  /\ rp = NoReplan
  /\ gw = NoCall
  /\ ex = NoExec
  /\ bus = NoBus
  /\ MoreIdle

\* process_goal broadcasts a step_update, plan_created or replanning event.
RunEmit ==
  /\ sub.run = "running"
  /\ sub.emitted < MaxStreamEvents
  /\ sub' = broadcast_to([sub EXCEPT !.emitted = @ + 1], "step_update")
  /\ UNCHANGED subframe

\* process_goal, completion phase: the plan is complete.
RunComplete ==
  /\ sub.run = "running"
  /\ sub' = broadcast_to([sub EXCEPT !.run = "storing", !.status = "completed"],
                         "goal_completed")
  /\ UNCHANGED subframe

\* MemoryRepository.store returns and process_goal returns.
RunStored ==
  /\ sub.run = "storing"
  /\ sub' = [sub EXCEPT !.run = "completed"]
  /\ UNCHANGED subframe

\* process_goal, completion phase: the plan is not complete.
RunFail ==
  /\ sub.run = "running"
  /\ sub' = broadcast_to([sub EXCEPT !.run = "failed", !.status = "failed"],
                         "goal_failed")
  /\ UNCHANGED subframe

\* A call inside process_goal's try raises.
RunFault ==
  /\ sub.run \in {"running", "storing"}
  /\ sub' = [sub EXCEPT !.run = "handler"]
  /\ UNCHANGED subframe

\* process_goal's handler: update_status(FAILED) and the error event.
RunHandler ==
  /\ sub.run = "handler"
  /\ sub' = broadcast_to([sub EXCEPT !.run = "failed", !.status = "failed"], "error")
  /\ UNCHANGED subframe

\* update_status inside the handler raises: process_goal raises, the task's
\* done callback logs the exception.
RunHandlerFault ==
  /\ sub.run = "handler"
  /\ sub' = [sub EXCEPT !.run = "raised"]
  /\ UNCHANGED subframe

\* stream_goal_events: the queue is created, the listener is added, and the
\* StreamingResponse is returned.
Subscribe ==
  /\ sub.pc = "none"
  /\ sub.connected
  /\ sub' = [sub EXCEPT !.pc = "registered", !.registered = TRUE]
  /\ UNCHANGED subframe

\* The client disconnects.
Disconnect ==
  /\ sub.pc \in {"registered", "waiting", "get"}
  /\ sub.connected
  /\ sub' = [sub EXCEPT !.connected = FALSE]
  /\ UNCHANGED subframe

\* The response starts to iterate event_generator.
StreamStart ==
  /\ sub.pc = "registered"
  /\ sub' = [sub EXCEPT !.pc = "waiting"]
  /\ UNCHANGED subframe

\* The client is gone before the response iterates event_generator: its body,
\* and with it its finally, never runs.
StreamNeverStarted ==
  /\ sub.pc = "registered"
  /\ ~sub.connected
  /\ sub' = [sub EXCEPT !.pc = "never_started"]
  /\ UNCHANGED subframe

\* while True: request.is_disconnected() is false.
StreamPoll ==
  /\ sub.pc = "waiting"
  /\ sub.connected
  /\ sub' = [sub EXCEPT !.pc = "get"]
  /\ UNCHANGED subframe

\* while True: request.is_disconnected() is true: break, finally.
StreamDisconnected ==
  /\ sub.pc = "waiting"
  /\ ~sub.connected
  /\ sub' = stream_end(sub)
  /\ UNCHANGED subframe

\* event_queue.get returns an event: it is yielded; a terminal event ends the
\* generator.
StreamYield ==
  /\ sub.pc = "get"
  /\ sub.queue # <<>>
  /\ LET ev == Head(sub.queue)
         s == [sub EXCEPT !.queue = Tail(@), !.sent = Append(@, ev)]
     IN  sub' = IF ev \in TerminalEvents THEN stream_end(s)
               ELSE [s EXCEPT !.pc = "waiting"]
  /\ UNCHANGED subframe

\* event_queue.get times out: a heartbeat is yielded.
StreamHeartbeat ==
  /\ sub.pc = "get"
  /\ sub.queue = <<>>
  /\ sub' = [sub EXCEPT !.pc = "waiting"]
  /\ UNCHANGED subframe

\* The generator is cancelled or closed while it waits: finally.
StreamCancelled ==
  /\ sub.pc = "get"
  /\ ~sub.connected
  /\ sub' = stream_end(sub)
  /\ UNCHANGED subframe

StreamNext ==
  \/ RunEmit
  \/ RunComplete
  \/ RunStored
  \/ RunFail
  \/ RunFault
  \/ RunHandler
  \/ RunHandlerFault
  \/ Subscribe
  \/ Disconnect
  \/ StreamStart
  \/ StreamNeverStarted
  \/ StreamPoll
  \/ StreamDisconnected
  \/ StreamYield
  \/ StreamHeartbeat
  \/ StreamCancelled

StreamSpec == StreamInit /\ [][StreamNext]_vars

\* ------------------------------- LLMGateway.generate_structured alone
\* The largest `retries` argument of the calls.
MaxStructRetries == 2

\* What generate may return: bare JSON, JSON inside a code fence or inside
\* prose, text with no JSON object, or a broken JSON object; each at most 500
\* characters long or longer.
TextKinds == {"json", "wrapped", "prose", "broken"}
Texts == [kind : TextKinds, long : BOOLEAN]

\* _sanitize_json_response: the fence and what surrounds the outermost braces
\* are stripped.
sanitize_json_response(text) ==
  IF text.kind = "wrapped" THEN [text EXCEPT !.kind = "json"] ELSE text

\* parser.parse: whether it returns.
parses(sanitized) == sanitized.kind = "json"

\* The prompt of the first attempt, and the prompt built after a parse failure:
\* the error of the parse and text[:500].
FirstPrompt == [feedback |-> FALSE]
RetryPrompt(text) ==
  [feedback |-> TRUE, error |-> sanitize_json_response(text).kind,
   previous |-> [text EXCEPT !.long = FALSE], cut |-> text.long]

\* One call of generate_structured. pc: "generate" (before a generate call),
\* "returned", "raised_parse", "raised_generate"; attempt: the loop variable;
\* prompts: the full_prompt of each generate call made; texts: what the calls
\* returned; result: the text whose parse was returned.
Struct(retries) ==
  [pc |-> "generate", retries |-> retries, attempt |-> 0, full_prompt |-> FirstPrompt,
   prompts |-> <<>>, texts |-> <<>>, result |-> <<>>]

\* except Exception as parse_err, mutated: the re-prompt is made after the last
\* attempt too.
parse_failed_again(g, text) ==
  IF g.attempt < g.retries + 1
  THEN [g EXCEPT !.attempt = @ + 1, !.full_prompt = RetryPrompt(text)]
  ELSE [g EXCEPT !.pc = "raised_parse"]

\* except Exception as parse_err: the re-prompt, or the raise after the last
\* attempt.
parse_failed(g, text) ==
  IF g.attempt < g.retries
  THEN [g EXCEPT !.attempt = @ + 1, !.full_prompt = RetryPrompt(text)]
  ELSE [g EXCEPT !.pc = "raised_parse"]

structframe ==
  <<pc, demo, goal_status, plan, iteration, ready_steps, results, cursor,
    needs_replan, events, memory, iter_exec, ever_completed, last_eval,
    ceiling_iters, faulted, query, dbvars, capped, rp, gw, ex, bus, sub, em>>

StructuredInit ==
  /\ pc = "structured"
  /\ \E retries \in 0..MaxStructRetries : gs = Struct(retries)
  /\ demo = FALSE
  /\ goal_status = "executing"
  /\ plan = NoPlan
  /\ iteration = 0
  /\ ready_steps = <<>>
  /\ results = <<>>
  /\ cursor = 0
  /\ needs_replan = FALSE
  /\ events = {}
  /\ memory = 0
  /\ iter_exec = <<>>
  /\ ever_completed = {}
  /\ last_eval = NoEval
  /\ ceiling_iters = 0
  /\ faulted = FALSE
  /\ query = NoQuery
  /\ db_plans = <<>>
  /\ plan_id = 0
  /\ active_plan_id = 0
  /\ capped = {}
  /\ rp = NoReplan
  /\ gw = NoCall
  /\ ex = NoExec
  /\ bus = NoBus
  /\ sub = NoSub
  /\ em = NoEmit

\* One pass of the loop: generate returns a text, it is sanitized and parsed.
StructGenerate ==
  /\ gs.pc = "generate"
  /\ \E text \in Texts :
       LET g == [gs EXCEPT !.prompts = Append(@, gs.full_prompt),
                           !.texts = Append(@, text)]
       IN  gs' = IF parses(sanitize_json_response(text))
                 THEN [g EXCEPT !.pc = "returned", !.result = <<text>>]
                 ELSE parse_failed(g, text)
  /\ UNCHANGED structframe

\* generate raises (every provider failed): the exception leaves
\* generate_structured.
StructGenerateFault ==
  /\ gs.pc = "generate"
  /\ gs' = [gs EXCEPT !.prompts = Append(@, gs.full_prompt), !.pc = "raised_generate"]
  /\ UNCHANGED structframe

StructuredNext == StructGenerate \/ StructGenerateFault

StructuredSpec == StructuredInit /\ [][StructuredNext]_vars

\* --------------------------- one goal run, one broadcast at a time, in order
\* Longest step list of the plans of the run.
MaxEmitSteps == 2

\* The StreamEvents of the run: goal_status, plan_created (with the version),
\* step_update (with the step position and the status in its data),
\* replanning, goal_completed, goal_failed, error.
GoalEvent(type) == [type |-> type, step |-> 0, status |-> "none", version |-> 0]
PlanCreated(version) ==
  [type |-> "plan_created", step |-> 0, status |-> "none", version |-> version]
StepUpdate(i, status) ==
  [type |-> "step_update", step |-> i, status |-> status, version |-> 0]

\* A step of the run: status, retry counter, and the positions it depends on.
EmitStep(deps) == [status |-> "pending", retry_count |-> 0, depends_on |-> deps]

\* Length of the longest dependency chain the Planner returns.
MaxEmitChain == 6

\* A plan of n steps each of which depends on the step before it.
EmitChain(n) == [i \in 1..n |-> EmitStep(IF i = 1 THEN {} ELSE {i - 1})]

\* The plans the Planner returns: one step, two independent steps, two steps
\* the second of which depends on the first, or a longer chain.
EmitPlans ==
  {<<EmitStep({})>>, <<EmitStep({}), EmitStep({})>>, <<EmitStep({}), EmitStep({1})>>,
   EmitChain(MaxEmitChain)}

\* Plan.is_complete and Plan.get_ready_steps on the run's steps.
emit_is_complete(steps) ==
  \A i \in DOMAIN steps : steps[i].status \in {"completed", "skipped"}
emit_ready(steps) ==
  LET IsReady(i) ==
        /\ steps[i].status = "pending"
        /\ \A d \in steps[i].depends_on : steps[d].status \in {"completed", "skipped"}
  IN  SelectSeq(Indices(steps), IsReady)

\* What the Replanner returns for failed step f: the step pending with a fresh
\* counter (retry), skipped (skip), failed (escalate, or the hard cap of the
\* simple retry), or pending behind a new step appended to the plan (insert).
emit_replans(steps, f) ==
  {[steps EXCEPT ![f].status = "pending", ![f].retry_count = 0],
   [steps EXCEPT ![f].status = "skipped"],
   [steps EXCEPT ![f].status = "failed"]}
  \cup
  (IF Len(steps) < MaxEmitSteps
   THEN {Append([steps EXCEPT ![f].status = "pending", ![f].retry_count = 0,
                              ![f].depends_on = @ \cup {Len(steps) + 1}],
                EmitStep(steps[f].depends_on))}
   ELSE {})

\* The run. pc: where process_goal / _execute_plan stands; log: the events
\* broadcast, in order; status: the persisted Goal.status; steps, version: the
\* in-memory plan; iteration; ready: ready_steps; res: parallel_results ("new":
\* task not run, "ok", "exc"); cur: the position of the loop over the results;
\* needs_replan.
Emit0 ==
  [pc |-> "start", log |-> <<>>, status |-> "received", steps |-> <<>>, version |-> 0,
   iteration |-> 0, ready |-> <<>>, res |-> <<>>, cur |-> 0, needs_replan |-> FALSE]

\* self._broadcast(StreamEvent(...)), mutated: nothing is emitted for an
\* evaluating step_update.
emit_no_evaluating(e, event) ==
  IF event.status = "evaluating" THEN e ELSE [e EXCEPT !.log = Append(@, event)]

\* self._broadcast(StreamEvent(...))
emit(e, event) == [e EXCEPT !.log = Append(@, event)]

\* The handling of an evaluation of step i: completed; or the counter is
\* incremented and the step is failed at the ceiling, else pending (retrying).
emit_outcome(e, i, success) ==
  IF success
  THEN emit([e EXCEPT !.steps[i].status = "completed"], StepUpdate(i, "completed"))
  ELSE LET rc == e.steps[i].retry_count + 1
       IN  IF rc >= default_max_retries
           THEN emit([e EXCEPT !.steps[i].status = "failed",
                               !.steps[i].retry_count = rc], StepUpdate(i, "failed"))
           ELSE emit([e EXCEPT !.steps[i].status = "pending",
                               !.steps[i].retry_count = rc], StepUpdate(i, "retrying"))

emitframe ==
  <<pc, demo, goal_status, plan, iteration, ready_steps, results, cursor,
    needs_replan, events, memory, iter_exec, ever_completed, last_eval,
    ceiling_iters, faulted, query, dbvars, capped, rp, gw, ex, bus, sub, gs>>

EmitInit ==
  /\ pc = "emit"
  /\ em = Emit0
  /\ demo = FALSE
  /\ goal_status = "executing"
  /\ plan = NoPlan
  /\ iteration = 0
  /\ ready_steps = <<>>
  /\ results = <<>>
  /\ cursor = 0
  /\ needs_replan = FALSE
  /\ events = {}
  /\ memory = 0
  /\ iter_exec = <<>>
  /\ ever_completed = {}
  /\ last_eval = NoEval
  /\ ceiling_iters = 0
  /\ faulted = FALSE
  /\ query = NoQuery
  /\ db_plans = <<>>
  /\ plan_id = 0
  /\ active_plan_id = 0
  /\ capped = {}
  /\ rp = NoReplan
  /\ gw = NoCall
  /\ ex = NoExec
  /\ bus = NoBus
  /\ sub = NoSub
  /\ gs = NoStruct

\* update_status(PLANNING) and the goal_status broadcast.
EmitPlanning ==
  /\ em.pc = "start"
  /\ em' = emit([em EXCEPT !.pc = "plan", !.status = "planning"], GoalEvent("goal_status"))
  /\ UNCHANGED emitframe

\* create_plan, PlanRepository.create, update_status(EXECUTING), plan_created.
EmitPlanCreated ==
  /\ em.pc = "plan"
  /\ \E steps \in EmitPlans :
       em' = emit([em EXCEPT !.pc = "loop", !.status = "executing", !.steps = steps,
                             !.version = 1], PlanCreated(1))
  /\ UNCHANGED emitframe

\* The loop head of _execute_plan.
EmitLoopHead ==
  /\ em.pc = "loop"
  /\ em' = IF emit_is_complete(em.steps) \/ em.iteration >= max_plan_iterations
           THEN [em EXCEPT !.pc = "finish"]
           ELSE LET ready == emit_ready(em.steps)
                IN  [em EXCEPT !.iteration = @ + 1, !.ready = ready,
                               !.res = [k \in DOMAIN ready |-> "new"], !.cur = 1,
                               !.needs_replan = FALSE,
                               !.pc = IF ready = <<>> THEN "finish"
                                      ELSE IF Len(ready) > 1 THEN "par_exec"
                                      ELSE "seq_exec"]
  /\ UNCHANGED emitframe

\* Sequential path: in_progress is persisted and broadcast, the step executed.
EmitSeqInProgress ==
  /\ em.pc = "seq_exec"
  /\ LET i == em.ready[1]
     IN  em' = emit([em EXCEPT !.pc = "seq_evaluating", !.steps[i].status = "in_progress"],
                    StepUpdate(i, "in_progress"))
  /\ UNCHANGED emitframe

\* Sequential path: evaluating is broadcast and the step evaluated.
EmitSeqEvaluating ==
  /\ em.pc = "seq_evaluating"
  /\ LET i == em.ready[1]
     IN  em' = emit([em EXCEPT !.pc = "seq_outcome", !.steps[i].status = "evaluating"],
                    StepUpdate(i, "evaluating"))
  /\ UNCHANGED emitframe

\* Sequential path: the outcome is persisted and broadcast.
EmitSeqOutcome ==
  /\ em.pc = "seq_outcome"
  /\ \E success \in BOOLEAN :
       LET i == em.ready[1]
           e == emit_outcome(em, i, success)
       IN  em' = [e EXCEPT !.pc = IF e.steps[i].status = "failed"
                                  THEN "seq_replanning" ELSE "loop"]
  /\ UNCHANGED emitframe

\* Sequential path: the replanning broadcast.
EmitSeqReplanning ==
  /\ em.pc = "seq_replanning"
  /\ em' = emit([em EXCEPT !.pc = "seq_replan"], GoalEvent("replanning"))
  /\ UNCHANGED emitframe

\* Sequential path: deactivate, replan, create, plan_created, break.
EmitSeqReplan ==
  /\ em.pc = "seq_replan"
  /\ \E steps \in emit_replans(em.steps, em.ready[1]) :
       em' = emit([em EXCEPT !.pc = "finish", !.steps = steps, !.version = @ + 1],
                  PlanCreated(em.version + 1))
  /\ UNCHANGED emitframe

\* Parallel path: the task of the k-th ready step persists and broadcasts
\* in_progress and executes the step.
EmitParInProgress(k) ==
  /\ em.pc = "par_exec"
  /\ em.res[k] = "new"
  /\ LET i == em.ready[k]
         e == emit([em EXCEPT !.steps[i].status = "in_progress", !.res[k] = "ok"],
                   StepUpdate(i, "in_progress"))
     IN  em' = [e EXCEPT !.pc = IF \E j \in DOMAIN e.res : e.res[j] = "new"
                                THEN "par_exec" ELSE "par_result"]
  /\ UNCHANGED emitframe

\* Parallel path: the task of the k-th ready step raises in a persistence call
\* before its broadcast; gather keeps the exception.
EmitParTaskFault(k) ==
  /\ em.pc = "par_exec"
  /\ em.res[k] = "new"
  /\ LET e == [em EXCEPT !.steps[em.ready[k]].status = "in_progress", !.res[k] = "exc"]
     IN  em' = [e EXCEPT !.pc = IF \E j \in DOMAIN e.res : e.res[j] = "new"
                                THEN "par_exec" ELSE "par_result"]
  /\ UNCHANGED emitframe

\* Parallel path, the loop over the results: its end, an exception skipped, or
\* evaluating broadcast and the step evaluated.
EmitParResult ==
  /\ em.pc = "par_result"
  /\ em' = IF em.cur > Len(em.ready)
           THEN [em EXCEPT !.pc = IF em.needs_replan THEN "par_replanning" ELSE "loop"]
           ELSE IF em.res[em.cur] = "exc"
           THEN [em EXCEPT !.cur = @ + 1]
           ELSE emit([em EXCEPT !.pc = "par_outcome",
                                !.steps[em.ready[em.cur]].status = "evaluating"],
                     StepUpdate(em.ready[em.cur], "evaluating"))
  /\ UNCHANGED emitframe

\* Parallel path: the outcome is persisted and broadcast.
EmitParOutcome ==
  /\ em.pc = "par_outcome"
  /\ \E success \in BOOLEAN :
       LET i == em.ready[em.cur]
           e == emit_outcome(em, i, success)
       IN  em' = [e EXCEPT !.pc = "par_result", !.cur = @ + 1,
                           !.needs_replan = @ \/ e.steps[i].status = "failed"]
  /\ UNCHANGED emitframe

\* Parallel path: the replanning broadcast.
EmitParReplanning ==
  /\ em.pc = "par_replanning"
  /\ em' = emit([em EXCEPT !.pc = "par_replan"], GoalEvent("replanning"))
  /\ UNCHANGED emitframe

\* Parallel path: deactivate, replan of the first failed step of the batch,
\* create, plan_created.
EmitParReplan ==
  /\ em.pc = "par_replan"
  /\ LET ks == {k \in DOMAIN em.ready : em.steps[em.ready[k]].status = "failed"}
         f == em.ready[CHOOSE k \in ks : \A j \in ks : k <= j]
     IN  \E steps \in emit_replans(em.steps, f) :
           em' = emit([em EXCEPT !.pc = "loop", !.steps = steps, !.version = @ + 1],
                      PlanCreated(em.version + 1))
  /\ UNCHANGED emitframe

\* The completion phase: update_status and goal_completed, or goal_failed.
EmitFinish ==
  /\ em.pc = "finish"
  /\ em' = IF emit_is_complete(em.steps)
           THEN emit([em EXCEPT !.pc = "store", !.status = "completed"],
                     GoalEvent("goal_completed"))
           ELSE emit([em EXCEPT !.pc = "done", !.status = "failed"],
                     GoalEvent("goal_failed"))
  /\ UNCHANGED emitframe

\* MemoryRepository.store returns and process_goal returns.
EmitStored ==
  /\ em.pc = "store"
  /\ em' = [em EXCEPT !.pc = "done"]
  /\ UNCHANGED emitframe

\* A call inside the try of process_goal raises (outside the tasks of a
\* parallel batch).
EmitFault ==
  /\ em.pc \notin {"par_exec", "handler", "done", "raised"}
  /\ em' = [em EXCEPT !.pc = "handler"]
  /\ UNCHANGED emitframe

\* The handler: update_status(FAILED) and the error broadcast.
EmitHandler ==
  /\ em.pc = "handler"
  /\ em' = emit([em EXCEPT !.pc = "done", !.status = "failed"], GoalEvent("error"))
  /\ UNCHANGED emitframe

\* update_status inside the handler raises.
EmitHandlerFault ==
  /\ em.pc = "handler"
  /\ em' = [em EXCEPT !.pc = "raised"]
  /\ UNCHANGED emitframe

EmitNext ==
  \/ EmitPlanning
  \/ EmitPlanCreated
  \/ EmitLoopHead
  \/ EmitSeqInProgress
  \/ EmitSeqEvaluating
  \/ EmitSeqOutcome
  \/ EmitSeqReplanning
  \/ EmitSeqReplan
  \/ \E k \in 1..MaxEmitSteps : k \in DOMAIN em.res /\ EmitParInProgress(k)
  \/ \E k \in 1..MaxEmitSteps : k \in DOMAIN em.res /\ EmitParTaskFault(k)
  \/ EmitParResult
  \/ EmitParOutcome
  \/ EmitParReplanning
  \/ EmitParReplan
  \/ EmitFinish
  \/ EmitStored
  \/ EmitFault
  \/ EmitHandler
  \/ EmitHandlerFault

EmitSpec == EmitInit /\ [][EmitNext]_vars

\* ================================================================ claims
Done(st) == st \in {"completed", "skipped"}

\* Step position i is handed to the Executor in this step.
Dispatched(i) ==
  /\ i \in DOMAIN iter_exec
  /\ i \in DOMAIN iter_exec'
  /\ iter_exec'[i] = iter_exec[i] + 1

\* The dependencies of step i of p each name a completed or skipped step of p.
DepsResolved(p, i) ==
  \A d \in p.steps[i].depends_on :
    \E j \in DOMAIN p.steps : p.steps[j].step_id = d /\ Done(p.steps[j].status)

\* C1: a step is handed to the Executor only if, at that moment, its status is
\* pending and every id in its depends_on names a completed or skipped step of
\* the current plan version (both paths, before and after replans).
C1_DispatchOnlyReady ==
  [][\A i \in DOMAIN plan.steps :
       Dispatched(i) => plan.steps[i].status = "pending" /\ DepsResolved(plan, i)]_vars

\* C1 witness: after a replan, a parallel batch has dispatched a step that has
\* dependencies.
C1_Witness ==
  /\ plan.version > 1
  /\ Len(ready_steps) > 1
  /\ \E i \in DOMAIN plan.steps :
       /\ i \in DOMAIN iter_exec
       /\ iter_exec[i] = 1
       /\ plan.steps[i].status = "in_progress"
       /\ plan.steps[i].depends_on # {}

\* C2 (as claimed): within one iteration every ready step is dispatched exactly
\* once, and a step that has been completed is never dispatched again, in any
\* later iteration or plan version.
C2_AtMostOnce ==
  /\ [](\A i \in DOMAIN iter_exec : iter_exec[i] <= 1)
  /\ []((pc = "loop" /\ ~faulted) =>
          \A k \in DOMAIN ready_steps : iter_exec[ready_steps[k]] = 1)
  /\ [][\A i \in DOMAIN plan.steps : Dispatched(i) => i \notin ever_completed]_vars

\* C3: get_ready_steps returns exactly the pending steps whose every dependency
\* names a completed or skipped step of the same plan, in plan order; a step
\* with an unresolvable dependency id is never returned.
C3_ReadySteps ==
  query.asked =>
    /\ \A k \in DOMAIN query.ready : query.ready[k] \in DOMAIN plan.steps
    /\ \A i \in DOMAIN plan.steps :
         (\E k \in DOMAIN query.ready : query.ready[k] = i)
           <=> (plan.steps[i].status = "pending" /\ DepsResolved(plan, i))
    /\ \A a, b \in DOMAIN query.ready : a < b => query.ready[a] < query.ready[b]
    /\ \A k \in DOMAIN query.ready :
         plan.steps[query.ready[k]].depends_on \subseteq PlanIds(plan)

\* C3 witness: a pending step whose dependency names a skipped step is
\* returned.
C3_Witness ==
  /\ query.asked
  /\ \E k \in DOMAIN query.ready :
       \E j \in DOMAIN plan.steps :
         /\ plan.steps[j].status = "skipped"
         /\ plan.steps[query.ready[k]].depends_on = {plan.steps[j].step_id}

\* C4: is_complete is true iff every step is completed or skipped; one step in
\* any other status makes it false.
C4_IsComplete ==
  query.asked =>
    /\ query.complete <=> \A i \in DOMAIN plan.steps : Done(plan.steps[i].status)
    /\ (\E i \in DOMAIN plan.steps :
          plan.steps[i].status \in
            {"pending", "in_progress", "evaluating", "failed", "replanned"})
         => ~query.complete

\* C4 witness: a plan of a completed and a skipped step is complete.
C4_Witness ==
  /\ query.asked
  /\ query.complete
  /\ \E i, j \in DOMAIN plan.steps :
       plan.steps[i].status = "completed" /\ plan.steps[j].status = "skipped"

\* C5 (as claimed): after a replan the Engine resumes on the new version: it
\* never ends a run without a fault while iterations remain and the new
\* version has a ready step.
C5_ResumesAfterReplan ==
  (pc = "done" /\ ~faulted /\ plan.version > 1 /\ iteration < max_plan_iterations)
    => get_ready_steps(plan) = <<>>

\* Width of one scheduling iteration in the ranking below: a batch holds at
\* most every step of the plan, and a plan grows by at most MaxModified steps
\* per replan.
W == 2 * (MaxSteps + max_plan_iterations * MaxModified) + 4

\* Position of a run in process_goal: it grows with every step the run takes.
Rank ==
  LET base == 2 + iteration * W
  IN  CASE pc = "start" -> 0
        [] pc \in {"plan", "demo_plan"} -> 1
        [] pc = "loop" -> base + W
        [] pc = "seq_exec" -> base + 1
        [] pc = "seq_eval" -> base + 2
        [] pc = "seq_replan" -> base + 3
        [] pc = "par_exec" ->
             base + 1 + Cardinality({k \in DOMAIN results : results[k] # "new"})
        [] pc = "par_eval" -> base + 1 + Len(ready_steps) + cursor
        [] pc = "par_replan" -> base + 2 + 2 * Len(ready_steps)
        [] pc = "finish" -> 2 + (max_plan_iterations + 2) * W
        [] pc = "store" -> 3 + (max_plan_iterations + 2) * W
        [] pc = "handler" -> 4 + (max_plan_iterations + 2) * W
        [] OTHER -> 5 + (max_plan_iterations + 2) * W

\* C6: every run of process_goal terminates with the goal completed or failed
\* after at most 5 scheduling iterations: the loop counter never passes 5, a
\* run that has not returned can always take a step, every step strictly
\* raises a bounded rank, and a run that returned left the goal completed or
\* failed.
C6_Terminates ==
  /\ [](iteration <= max_plan_iterations)
  /\ [](Rank <= 5 + (max_plan_iterations + 2) * W)
  /\ [](pc \notin {"done", "raised"} => ENABLED Next)
  /\ [](pc = "done" => goal_status \in {"completed", "failed"})
  /\ [][Rank' > Rank]_vars

\* C6 witness: a run without a fault that the iteration ceiling cut short: it
\* returned after 5 iterations with a step still ready, the goal failed.
C6_Witness ==
  /\ pc = "done"
  /\ ~faulted
  /\ iteration = max_plan_iterations
  /\ goal_status = "failed"
  /\ get_ready_steps(plan) # <<>>

\* C7: when the loop exits without a fault, the goal is completed,
\* goal_completed is emitted and one memory entry is stored iff every step of
\* the plan current at loop exit is completed or skipped; otherwise the goal
\* is failed, goal_failed is emitted and nothing is stored.
C7_FinalStatus ==
  (pc = "done" /\ ~faulted) =>
    IF \A i \in DOMAIN plan.steps : Done(plan.steps[i].status)
    THEN /\ goal_status = "completed"
         /\ "goal_completed" \in events
         /\ "goal_failed" \notin events
         /\ memory = 1
    ELSE /\ goal_status = "failed"
         /\ "goal_failed" \in events
         /\ "goal_completed" \notin events
         /\ memory = 0

\* C7 witness: a run that replanned in a parallel batch and then completed
\* every step of the new version.
C7_Witness ==
  /\ pc = "done"
  /\ ~faulted
  /\ plan.version > 1
  /\ Len(plan.steps) > 1
  /\ goal_status = "completed"
  /\ memory = 1

\* Order of the goal statuses along received -> planning -> executing ->
\* {completed | failed}.
StatusOrder(st) ==
  CASE st = "received" -> 0
    [] st = "planning" -> 1
    [] st = "executing" -> 2
    [] OTHER -> 3

\* C8 (as claimed): the goal status only moves forward, completed is reached
\* only from executing, and a completed or failed goal never changes status
\* again.
C8_StatusForward ==
  [][goal_status' # goal_status =>
       /\ StatusOrder(goal_status') > StatusOrder(goal_status)
       /\ goal_status' = "completed" => goal_status = "executing"
       /\ goal_status \notin {"completed", "failed"}]_vars

\* C9: a step's retry counter never passes its ceiling; a step whose counter is
\* at the ceiling is failed (or skipped by the replan that followed); the
\* iteration in which a step reaches the ceiling replans, once; and no step is
\* dispatched with a counter at or above the ceiling.
C9_RetryCeiling ==
  /\ [](\A i \in DOMAIN plan.steps :
          plan.steps[i].retry_count <= plan.steps[i].max_retries)
  /\ [](\A i \in DOMAIN plan.steps :
          plan.steps[i].retry_count >= plan.steps[i].max_retries
            => plan.steps[i].status \in {"failed", "skipped"})
  /\ [](pc \in {"loop", "finish", "store"} => plan.version = 1 + ceiling_iters)
  /\ [][\A i \in DOMAIN plan.steps :
          Dispatched(i) => plan.steps[i].retry_count < plan.steps[i].max_retries]_vars

\* C10: an evaluation of failure or partial that leaves the incremented counter
\* below the ceiling returns the step to pending with that counter and the
\* same depends_on, in the same plan version and without a replan; and a lone
\* step whose third evaluation is the first success is completed with counter
\* 2 in version 1, no replan, and the goal ends completed.
C10_RetryBranch ==
  /\ [][\A i \in DOMAIN plan.steps :
          ( /\ last_eval'.n = last_eval.n + 1
            /\ last_eval'.step = i
            /\ last_eval'.result \in {"failure", "partial"}
            /\ plan.steps[i].retry_count + 1 < plan.steps[i].max_retries )
          => /\ Len(plan'.steps) = Len(plan.steps)
             /\ plan'.steps[i].status = "pending"
             /\ plan'.steps[i].retry_count = plan.steps[i].retry_count + 1
             /\ plan'.steps[i].depends_on = plan.steps[i].depends_on
             /\ plan'.version = plan.version
             /\ needs_replan' = needs_replan
             /\ ceiling_iters' = ceiling_iters
             /\ pc' \notin {"seq_replan", "par_replan"} \/ needs_replan]_vars
  /\ []((Len(plan.steps) = 1 /\ last_eval.n = 3 /\ last_eval.result = "success")
          => /\ plan.steps[1].status = "completed"
             /\ plan.steps[1].retry_count = 2
             /\ plan.version = 1
             /\ "replanning" \notin events
             /\ (pc = "done" /\ ~faulted) => goal_status = "completed")

\* C10 witness: a lone step failed evaluation twice, succeeded on the third
\* attempt, and the run returned.
C10_Witness ==
  /\ pc = "done"
  /\ ~faulted
  /\ Len(plan.steps) = 1
  /\ last_eval.n = 3
  /\ last_eval.result = "success"
  /\ plan.steps[1].retry_count = 2

\* C11: every replan persists a plan with a new identity and the previous
\* version + 1, so the versions get_versions_for_goal returns are 1, 2, 3, ...
\* without gap or repeat; and the step list of an earlier version is unchanged
\* by the replan that supersedes it and by everything after it.
C11_VersionsIncrease ==
  /\ [](LET v == get_versions_for_goal(db_plans)
        IN  \A k \in DOMAIN v : v[k].version = k)
  /\ [][Len(db_plans') # Len(db_plans) =>
          /\ Len(db_plans') = Len(db_plans) + 1
          /\ plan_id' \notin DOMAIN db_plans
          /\ plan_id' \in DOMAIN db_plans'
          /\ db_plans'[plan_id'].version =
               IF db_plans = <<>> THEN 1 ELSE db_plans[plan_id].version + 1]_vars
  /\ [][db_plans' # db_plans =>
          LET v == get_versions_for_goal(db_plans)
              w == get_versions_for_goal(db_plans')
          IN  \A k \in DOMAIN v :
                (Len(w) > Len(v) \/ ~v[k].is_active) =>
                  /\ k \in DOMAIN w
                  /\ w[k].version = v[k].version
                  /\ w[k].steps = v[k].steps]_vars

\* C11 witness: two replans were persisted, the run went on executing, and the
\* superseded versions hold step lists that differ from the current one.
C11_Witness ==
  /\ Len(db_plans) = 3
  /\ pc = "par_eval"
  /\ db_plans[1].steps # db_plans[2].steps
  /\ db_plans[2].steps # db_plans[3].steps

\* C12: at most one plan of the goal is active; after a replan the active plan
\* is the latest, highest version; and a deactivated plan is never active
\* again, whatever the Engine writes through PlanRepository.update.
C12_OneActive ==
  /\ [](Cardinality({r \in DOMAIN db_plans : db_plans[r].is_active}) <= 1)
  /\ [](\A r \in DOMAIN db_plans :
          db_plans[r].is_active =>
            \A q \in DOMAIN db_plans : q # r => db_plans[q].version < db_plans[r].version)
  /\ []((pc \in {"loop", "finish", "store"} /\ db_plans # <<>>) =>
          get_active_for_goal(db_plans) = Len(db_plans))
  /\ [][\A r \in DOMAIN db_plans :
          ~db_plans[r].is_active => ~db_plans'[r].is_active]_vars

\* C12 witness: after a replan a step of the new version was dispatched and
\* written through PlanRepository.update; the old version is inactive.
C12_Witness ==
  /\ Len(db_plans) = 2
  /\ ~db_plans[1].is_active
  /\ db_plans[2].is_active
  /\ \E i \in DOMAIN db_plans[2].steps : db_plans[2].steps[i].status = "in_progress"

\* C13 (as claimed, on runs without a fault): while the goal is executing,
\* completed or failed with a plan persisted, its active-plan reference names
\* the plan that is active.
C13_ActivePlanRef ==
  (goal_status \in {"executing", "completed", "failed"} /\ db_plans # <<>> /\ ~faulted)
    => /\ active_plan_id # 0
       /\ active_plan_id = get_active_for_goal(db_plans)

\* ------------------------------------------------------------------ C14
\* The is_new entries of the answer ReplanSpec applied, their ids, and the
\* depends_on the failed step's copy has before the insertion: the list of the
\* last non-new entry naming its id, or else its previous one.
NewEntries ==
  LET IsNew(ms) == ms.is_new
  IN  SelectSeq(rp.data.modified_steps, IsNew)

NewEntryIds == {NewEntries[k].step_id : k \in DOMAIN NewEntries}

EditedDeps ==
  LET m == rp.data.modified_steps
      fid == plan.steps[rp.failed_step].step_id
      ks == {k \in DOMAIN m : m[k].step_id = fid /\ ~m[k].is_new /\ m[k].has_depends_on}
  IN  IF ks = {} THEN plan.steps[rp.failed_step].depends_on
      ELSE m[CHOOSE k \in ks : \A j \in ks : j <= k].depends_on

InsertAnswered ==
  /\ pc = "replan_done"
  /\ ~rp.fallback
  /\ rp.data.strategy = "insert"
  /\ NewEntries # <<>>

InsertKeepsAndAppends ==
  /\ rp.new.version = plan.version + 1
  /\ Len(rp.new.steps) = Len(plan.steps) + Len(NewEntries)
  /\ \A i \in DOMAIN plan.steps : rp.new.steps[i].step_id = plan.steps[i].step_id
  /\ \A k \in DOMAIN NewEntries :
       rp.new.steps[Len(plan.steps) + k].step_id = NewEntries[k].step_id
  /\ rp.new.steps[rp.failed_step].status = "pending"

C15_CompletedUntouched ==
  [][(plan.version >= 1 /\ plan'.version = plan.version + 1)
       => \A i \in DOMAIN plan.steps :
            plan.steps[i].status = "completed"
              => i \in DOMAIN plan'.steps /\ plan'.steps[i] = plan.steps[i]]_vars

\* ------------------------------------------------------------------ C16
\* C16: when the generation fails and the simple-retry fallback finds the failed
\* step at or above its ceiling, the step is failed with the terminal message,
\* and from then on the scheduling loop never hands that step to the Executor.
C16_SimpleRetry ==
  /\ [][\A i \in capped' \ capped :
          /\ plan'.steps[i].status = "failed"
          /\ plan'.steps[i].error_message = "hard_cap"
          /\ plan'.steps[i].retry_count = plan.steps[i].retry_count]_vars
  /\ [][\A i \in DOMAIN plan.steps : Dispatched(i) => i \notin capped]_vars

\* ------------------------------------------------------------------ C17
\* C17: in the parallel path a fault in one step of a batch does not keep the
\* other steps of the batch from being executed and evaluated: when the loop
\* over the batch's results is left, every step of the batch that was executed
\* has been evaluated; and the replan of the batch starts only after every
\* result of the batch has been handled.
C17_BatchIsolation ==
  /\ [][(pc = "par_eval" /\ pc' # "par_eval")
          => \A k \in DOMAIN results : results[k] = "ok" => k <= cursor]_vars
  /\ [](pc = "par_replan"
          => /\ cursor = Len(ready_steps) + 1
             /\ \A k \in DOMAIN results : results[k] # "new")

\* ------------------------------------------------------------------ C18
\* C18: a fault that reaches process_goal's handler leaves the goal failed with
\* an error event broadcast, and process_goal never raises, also when the
\* handler's own persistence call fails or finds no goal record.
C18_FaultHandled ==
  /\ [](pc # "raised")
  /\ [][(pc = "handler" /\ pc' # "handler")
          => pc' = "done" /\ goal_status' = "failed" /\ "error" \in events']_vars

\* ------------------------------------------------------------------ C19
\* C19: generate attempts the providers in the configured order and returns the
\* result of the first provider that succeeds without invoking a later one:
\* the ainvoke calls go through the chain positions in order; and when the
\* call has a result, it has returned, the result and its log come from the
\* chain position of the last call, every earlier position failed, and no
\* later position was invoked.
C19_FirstSuccess ==
  /\ \A j, k \in DOMAIN gw.calls : j < k => gw.calls[j] <= gw.calls[k]
  /\ (gw.pc = "returned" \/ gw.result # NoResult)
       => /\ gw.pc = "returned"
          /\ gw.result.p = gw.p
          /\ gw.calls # <<>>
          /\ gw.calls[Len(gw.calls)] = gw.result.p
          /\ gw.result.log.provider = gw.chain[gw.result.p]
          /\ gw.failed = 1..(gw.result.p - 1)
          /\ \A k \in DOMAIN gw.calls : gw.calls[k] <= gw.result.p
          /\ gw.raised = NoError

\* The primary and the fallback provider failed, each after being invoked, and
\* the tertiary provider's answer was returned.
C19_Witness ==
  /\ gw.pc = "returned"
  /\ gw.result.p = fallback_chain_len
  /\ gw.failed = {1, 2}
  /\ \A q \in 1..fallback_chain_len : \E k \in DOMAIN gw.calls : gw.calls[k] = q

\* ------------------------------------------------------------------ C20
\* C20: when every provider fails, generate raises an aggregate error that
\* carries the detail of the last underlying error, and an AgentLog with a
\* populated error is returned to the caller or appended to the log store.
C20_AllFailed ==
  gw.pc = "raised"
    => /\ gw.failed = 1..Len(gw.chain)
       /\ gw.raised = gw.last_error
       /\ gw.raised.p = Len(gw.chain)
       /\ \E log \in gw.recorded : log.error # NoError

\* ------------------------------------------------------------------ C21
\* C21: every provider attempt of a call, successful or failed, yields exactly
\* one AgentLog entry: when providers 1..N-1 failed and provider N succeeded,
\* N entries are recorded for the call, N-1 of them with a populated error.
C21_LogPerAttempt ==
  gw.pc = "returned"
    => /\ Cardinality(gw.recorded) = gw.result.p
       /\ Cardinality({log \in gw.recorded : log.error # NoError}) = gw.result.p - 1

\* ------------------------------------------------------------------ C22
\* C22: execute_tool called with a name that is not registered fails with a
\* structured error whose code is NOT_FOUND, with the payload shape of the
\* other capability errors, and the error entry the Executor records for it
\* differs by its code from that of a failed registered capability.
C22_NotFound ==
  /\ \A k \in DOMAIN ex.invoked :
       ex.invoked[k].call.name \notin Registry
         => /\ ex.invoked[k].raised.type = "ToolExecutionError"
            /\ ex.invoked[k].raised.payload.error_code = "NOT_FOUND"
            /\ ex.invoked[k].raised.payload.trace
            /\ ex.invoked[k].raised.payload.agent_recovery_action
  /\ (ex.via = "llm" \/ ex.pc = "tools")
       => \A k \in DOMAIN ex.tool_results :
            ex.tool_results[k].tool \notin Registry
              => ex.tool_results[k].error_payload.error_code
                   \notin {"none", "TOOL_EXECUTION_ERROR", "TOOL_TIMEOUT"}

\* ------------------------------------------------------------------ C23
\* C23: whatever makes an execute_tool call fail (lookup, timeout, a fault of
\* the handler or of its call), what crosses the boundary is a
\* ToolExecutionError whose payload has an error code, the capability, a trace
\* and a recovery action; the code is the timeout code when the handler
\* exceeded the limit and the execution-error code for any other handler fault.
C23_StructuredErrors ==
  \A k \in DOMAIN ex.invoked :
    LET c == ex.invoked[k].call
        r == ex.invoked[k].raised
    IN  r.type # "return"
          => /\ r.type = "ToolExecutionError"
             /\ r.payload.error_code # "none"
             /\ r.payload.component = c.name
             /\ r.payload.trace
             /\ r.payload.agent_recovery_action
             /\ (c.name \in Registry /\ c.params = "ok" /\ c.behaviour = "hangs")
                  => r.payload.error_code = "TOOL_TIMEOUT"
             /\ (c.name \in Registry /\ c.params = "ok" /\ c.behaviour = "raises")
                  => r.payload.error_code = "TOOL_EXECUTION_ERROR"

\* ------------------------------------------------------------------ C24
\* C24: execute_step never raises: every execute_tool call of the running loop
\* has its entry in tool_results, an error entry exactly when the call failed,
\* and the calls after a failed one are still made; a result built by the main
\* path has one entry per action of the answer; when the generation (or the
\* handling of its answer) failed, the result is the offline fallback's, with
\* one entry per required tool; and the returned result reaches the Evaluator.
C24_NeverRaises ==
  /\ ex.pc # "raised"
  /\ ex.pc \in {"tools", "fallback", "returned", "evaluating"}
       => /\ Len(ex.tool_results) = Len(ex.crossed)
          /\ \A k \in DOMAIN ex.tool_results :
               ex.tool_results[k].status = "error" <=> ex.crossed[k].type # "return"
  /\ ex.pc \in {"returned", "evaluating"}
       => /\ ex.via \in {"llm", "fallback"}
          /\ ex.gen_failed <=> ex.via = "fallback"
          /\ ex.via = "llm" => Len(ex.tool_results) = ex.n_actions
          /\ ex.via = "fallback"
               => /\ Len(ex.tool_results) = Len(ex.required_tools)
                  /\ \A k \in DOMAIN ex.tool_results :
                       ex.tool_results[k].tool = ex.required_tools[k]

\* The answer named an unregistered tool and then a registered one: the first
\* call failed raw, the second was still made and succeeded, and the result
\* reached the Evaluator.
C24_Witness ==
  /\ ex.pc = "evaluating"
  /\ ex.via = "llm"
  /\ Len(ex.tool_results) = 2
  /\ ex.crossed[1].type = "ValueError"
  /\ ex.tool_results[1].status = "error"
  /\ ex.tool_results[2].status = "success"

\* ------------------------------------------------------------------ C25
\* C25: a broadcast delivers the event to exactly the listeners registered when
\* it started, in registration order: during the fan-out the listeners called
\* so far are the first ones of that list, whatever was added or removed
\* meanwhile and whichever of them raised, and when the broadcast has returned
\* every one of them was called once.
C25_Snapshot ==
  /\ bus.pc = "fanout"
       => /\ bus.i <= Len(bus.at_start) + 1
          /\ bus.delivered = SubSeq(bus.at_start, 1, bus.i - 1)
  /\ (bus.pc = "idle" /\ bus.n > 0) => bus.delivered = bus.at_start
  /\ bus.pc \in {"idle", "fanout"} => bus.raised \subseteq {bus.delivered[k] : k \in DOMAIN bus.delivered}

\* Listeners 1 and 2 were registered when the broadcast started; during the
\* fan-out listener 1 raised and was removed and listener 3 was added: 1 and
\* 2 were called, in this order, and 3 was not.
C25_Witness ==
  /\ bus.pc = "fanout"
  /\ bus.at_start = <<1, 2>>
  /\ bus.listeners = <<2, 3>>
  /\ bus.raised = {1}
  /\ bus.delivered = <<1, 2>>

\* ------------------------------------------------------------------ C26
\* C26: a live subscription ends after delivering the first terminal event of
\* its goal; whenever the stream has ended its listener is deregistered; a
\* client disconnect changes nothing in the goal's background run; and that
\* run ends with the goal completed or failed.
C26_Subscription ==
  /\ [](\A k \in DOMAIN sub.sent :
          sub.sent[k] \in TerminalEvents => (k = Len(sub.sent) /\ sub.pc = "ended"))
  /\ [](sub.pc \in {"ended", "never_started"} => ~sub.registered)
  /\ [][(sub.connected /\ ~sub'.connected)
          => (sub'.run = sub.run /\ sub'.status = sub.status
                /\ sub'.emitted = sub.emitted)]_vars
  /\ [](sub.run \in {"completed", "failed", "raised"}
          => sub.status \in {"completed", "failed"})

\* ------------------------------------------------------------------ C27
\* C27: every plan version in the plans table, whether the Planner or the
\* Replanner built it, has pairwise distinct step ids, and every id in a
\* depends_on of one of its steps is the id of a step of the same plan.
C27_WellFormedPlans ==
  \A r \in DOMAIN db_plans :
    LET p == db_plans[r]
    IN  /\ \A i, j \in DOMAIN p.steps : i # j => p.steps[i].step_id # p.steps[j].step_id
        /\ \A i \in DOMAIN p.steps : p.steps[i].depends_on \subseteq PlanIds(p)

\* ------------------------------------------------------------------ C28
\* The step the replan of the current iteration is made for (0: none).
ReplanFor ==
  IF pc = "seq_replan" THEN ready_steps[1]
  ELSE IF pc = "par_replan" THEN first_failed(plan, ready_steps)
  ELSE 0

C29_SameStep == ReplanFor # 0 => last_eval.step = ReplanFor

\* ------------------------------------------------------------------ C30
\* Step position i was escalated in some plan version of the table.
Escalated(i) ==
  \E r \in DOMAIN db_plans :
    /\ i \in DOMAIN db_plans[r].steps
    /\ db_plans[r].steps[i].status = "failed"
    /\ db_plans[r].steps[i].error_message = "escalated"

\* The status the failed step has after a replan with the strategy.
StatusUnder(strategy) ==
  IF strategy = "retry" THEN "pending"
  ELSE IF strategy = "skip" THEN "skipped"
  ELSE "failed"

\* C30: whenever the Engine installs the plan the Replanner built from an
\* answer with strategy retry, skip or escalate, the new version has the step
\* ids of the old plan, position by position and no more, and the failed step
\* is pending, skipped or failed according to the strategy; and a step that was
\* escalated in some version is never handed to the Executor afterwards.
C30_Strategies ==
  /\ [][(ReplanFor # 0 /\ plan'.version = plan.version + 1) =>
          \A a \in ReplanAnswers(plan, ReplanFor) :
            (a.strategy \in {"retry", "skip", "escalate"}
               /\ plan' = apply_modifications(plan, ReplanFor, a))
              => /\ Len(plan'.steps) = Len(plan.steps)
                 /\ \A i \in DOMAIN plan.steps :
                      plan'.steps[i].step_id = plan.steps[i].step_id
                 /\ plan'.steps[ReplanFor].status = StatusUnder(a.strategy)]_vars
  /\ [][\A i \in DOMAIN plan.steps : Escalated(i) => ~Dispatched(i)]_vars

\* A step has been handed to the Executor while another step of the plan
\* stands escalated.
C30_Witness ==
  /\ pc \in {"seq_eval", "par_eval"}
  /\ \E i \in DOMAIN plan.steps :
       /\ Escalated(i)
       /\ plan.steps[i].status = "failed"
       /\ plan.steps[i].error_message = "escalated"
       /\ \E j \in DOMAIN plan.steps : j # i /\ iter_exec[j] = 1

\* ------------------------------------------------------------------ C31
\* C31: when the loop head computes the ready set after a parallel batch, every
\* step of the batch has been executed (its task returned a result), evaluated
\* (the loop over the results has handled it and it is no longer in_progress or
\* evaluating), and persisted (the plan's row records its status and retry
\* counter as the Engine holds them).
C31_BatchBarrier ==
  [][(pc = "loop" /\ pc' # "loop" /\ results # <<>>) =>
       \A k \in DOMAIN results :
         LET i == ready_steps[k]
         IN  /\ results[k] = "ok"
             /\ k < cursor
             /\ plan.steps[i].status \notin {"in_progress", "evaluating"}
             /\ plan_id \in DOMAIN db_plans
             /\ db_plans[plan_id].steps[i].status = plan.steps[i].status
             /\ db_plans[plan_id].steps[i].retry_count = plan.steps[i].retry_count]_vars

\* ------------------------------------------------------------------ C32
\* A step_update of step position i is broadcast in this step: the in_progress
\* event of its dispatch, or the event of the outcome of its evaluation.
StepUpdateOf(i) ==
  \/ Dispatched(i)
  \/ last_eval'.n = last_eval.n + 1 /\ last_eval'.step = i

\* C32: whenever a step_update event of a step is broadcast, the plan's row
\* records for that step the status and the retry counter of the Engine's
\* in-memory step.
C32_PersistBeforePublish ==
  [][\A i \in DOMAIN plan.steps :
       StepUpdateOf(i) =>
         /\ plan_id' \in DOMAIN db_plans'
         /\ db_plans'[plan_id'].steps[i].status = plan'.steps[i].status
         /\ db_plans'[plan_id'].steps[i].retry_count = plan'.steps[i].retry_count]_vars

\* ------------------------------------------------------------------ C33
\* The number of the ainvoke call j among the calls of its provider pass
\* (0 for the first).
AttemptOf(j) ==
  Cardinality({k \in 1..(j - 1) : gw.calls[k] = gw.calls[j]})

\* C33: within one provider pass a further ainvoke call follows only a call
\* that ended with a rate-limit error, after a sleep of 5 s times the number of
\* the attempt that failed; a pass makes at most 3 calls; and a call that ended
\* in any other way (another error, a timeout, an answer) is the last call of
\* its pass.
C33_RateLimitRetry ==
  /\ Len(gw.outcomes) = Len(gw.calls) /\ Len(gw.delays) = Len(gw.calls)
  /\ \A j \in DOMAIN gw.calls :
       /\ AttemptOf(j) < max_retries
       /\ (j < Len(gw.calls) /\ gw.calls[j + 1] = gw.calls[j])
            => /\ gw.outcomes[j] = "rate_limit"
               /\ gw.delays[j] = 5 * (AttemptOf(j) + 1)
               /\ AttemptOf(j + 1) = AttemptOf(j) + 1
       /\ gw.outcomes[j] # "rate_limit"
            => /\ gw.delays[j] = 0
               /\ \A k \in DOMAIN gw.calls : k > j => gw.calls[k] > gw.calls[j]
       /\ (j < Len(gw.calls) /\ gw.calls[j + 1] # gw.calls[j])
            => (gw.delays[j] = 0 /\ gw.calls[j] \in gw.failed)

\* The primary provider was rate-limited three times, with sleeps of 5 s and
\* 10 s between the calls, and the fallback provider failed with another error
\* after one call.
C33_Witness ==
  /\ Len(gw.calls) >= 5
  /\ \A j \in 1..3 : gw.calls[j] = 1 /\ gw.outcomes[j] = "rate_limit"
  /\ gw.delays[1] = 5 /\ gw.delays[2] = 10 /\ gw.delays[3] = 0
  /\ gw.calls[4] = 2 /\ gw.outcomes[4] = "error"
  /\ gw.calls[5] = 3

\* ------------------------------------------------------------------ C34
\* C34: generate_structured makes at most retries + 1 generate calls; the
\* first call has the plain prompt and every later one the error and the
\* (first 500 characters of the) invalid output of the call before it; when it
\* returns, it returns the parse of the first response that parses; it fails
\* on a parse only after retries + 1 responses none of which parses; and a
\* failure of generate ends the call at once.
C34_Structured ==
  /\ Len(gs.prompts) <= gs.retries + 1
  /\ \A k \in DOMAIN gs.prompts :
       IF k = 1 THEN ~gs.prompts[k].feedback
       ELSE /\ gs.prompts[k].feedback
            /\ gs.prompts[k].previous.kind = gs.texts[k - 1].kind
            /\ gs.prompts[k].error = sanitize_json_response(gs.texts[k - 1]).kind
            /\ ~parses(sanitize_json_response(gs.texts[k - 1]))
  /\ gs.pc = "returned" =>
       /\ gs.result = <<gs.texts[Len(gs.texts)]>>
       /\ Len(gs.prompts) = Len(gs.texts)
       /\ \A k \in DOMAIN gs.texts :
            parses(sanitize_json_response(gs.texts[k])) <=> k = Len(gs.texts)
  /\ gs.pc = "raised_parse" =>
       /\ Len(gs.texts) = gs.retries + 1
       /\ Len(gs.prompts) = Len(gs.texts)
       /\ \A k \in DOMAIN gs.texts : ~parses(sanitize_json_response(gs.texts[k]))
  /\ gs.pc = "raised_generate" =>
       /\ Len(gs.prompts) = Len(gs.texts) + 1
       /\ gs.result = <<>>
  /\ gs.pc = "generate" =>
       /\ Len(gs.prompts) = gs.attempt /\ Len(gs.texts) = gs.attempt
       /\ gs.attempt <= gs.retries

\* Two responses did not parse and the third, wrapped in a fence, was returned.
C34_Witness ==
  /\ gs.pc = "returned"
  /\ gs.retries = 2
  /\ Len(gs.texts) = 3
  /\ gs.texts[3].kind = "wrapped"
  /\ gs.texts[1].kind = "prose" /\ gs.texts[2].kind = "broken"

\* ------------------------------------------------------------------ C35
\* The position of the step_update before position k of the same step (0: none).
PrevUpdate(k) ==
  LET js == {j \in 1..(k - 1) : em.log[j].type = "step_update"
                                  /\ em.log[j].step = em.log[k].step}
  IN  IF js = {} THEN 0 ELSE CHOOSE j \in js : \A q \in js : q <= j

Outcomes == {"completed", "retrying", "failed"}

\* C35: in the sequence of events of a run, an in_progress of a step opens an
\* attempt (it is the step's first step_update or follows its retrying or
\* failed); an evaluating follows the in_progress of the same step and is
\* followed at once by one of completed, retrying, failed of that step (or by
\* the error event of an aborted run); an outcome follows at once the
\* evaluating of the same step; when the run ends with goal_completed or
\* goal_failed the last step_update of every step is an outcome; a plan_created
\* comes after goal_status, the first one has version 1, and one of a higher
\* version comes immediately after a replanning.
C35_EventOrder ==
  \A k \in DOMAIN em.log :
    LET e == em.log[k]
        p == PrevUpdate(k)
    IN  /\ (e.type = "step_update" /\ e.status = "in_progress")
             => (p = 0 \/ em.log[p].status \in {"retrying", "failed"})
        /\ (e.type = "step_update" /\ e.status = "evaluating")
             => /\ p # 0 /\ em.log[p].status = "in_progress"
                /\ k < Len(em.log) =>
                     \/ em.log[k + 1].type = "error"
                     \/ /\ em.log[k + 1].type = "step_update"
                        /\ em.log[k + 1].step = e.step
                        /\ em.log[k + 1].status \in Outcomes
        /\ (e.type = "step_update" /\ e.status \in Outcomes)
             => (p = k - 1 /\ p # 0 /\ em.log[p].status = "evaluating")
        /\ e.type = "step_update" => e.status \in Outcomes \cup {"in_progress", "evaluating"}
        /\ e.type \in {"goal_completed", "goal_failed"}
             => \A j \in 1..(k - 1) :
                  (em.log[j].type = "step_update" /\ em.log[j].status \notin Outcomes)
                    => \E q \in (j + 1)..(k - 1) :
                         em.log[q].type = "step_update" /\ em.log[q].step = em.log[j].step
        /\ e.type = "plan_created"
             => /\ \E j \in 1..(k - 1) : em.log[j].type = "goal_status"
                /\ (\A j \in 1..(k - 1) : em.log[j].type # "plan_created") => e.version = 1
                /\ e.version > 1 => (k > 1 /\ em.log[k - 1].type = "replanning")

\* A step was retried, failed at its ceiling in a parallel batch, was replanned
\* to a second version and completed in a later attempt.
C35_Witness ==
  \E k \in DOMAIN em.log :
    /\ em.log[k] = PlanCreated(2)
    /\ \E i \in DOMAIN em.steps :
         /\ \E j \in 1..(k - 1) : em.log[j] = StepUpdate(i, "retrying")
         /\ \E j \in 1..(k - 1) : em.log[j] = StepUpdate(i, "failed")
         /\ \E j \in (k + 1)..Len(em.log) : em.log[j] = StepUpdate(i, "completed")

\* ------------------------------------------------------------------ C36
\* C36: a run whose plan came from the Planner (acyclic, every dependency a
\* step of the plan), in which no call raised and no evaluation returned a
\* failure, ends with the goal completed and goal_completed as its last event.
C36_AllSuccess ==
  (/\ em.pc = "done"
   /\ \A k \in DOMAIN em.log :
        /\ em.log[k].type # "error"
        /\ em.log[k].status \notin {"retrying", "failed"}
   /\ \A i \in DOMAIN em.steps : em.steps[i].status \in {"pending", "completed"})
    => /\ em.status = "completed"
       /\ em.log[Len(em.log)].type = "goal_completed"

\* ------------------------------------------------------------------ C37
\* C37: when process_goal has ended, the run has emitted exactly one terminal
\* event (goal_completed, goal_failed, error), that event is the last event of
\* the run, and it is goal_completed exactly when the persisted status is
\* completed, the status being failed otherwise.
C37_OneTerminal ==
  em.pc \in {"done", "raised"} =>
    LET ts == {k \in DOMAIN em.log : em.log[k].type \in TerminalEvents}
    IN  /\ Cardinality(ts) = 1
        /\ Len(em.log) \in ts
        /\ em.log[Len(em.log)].type = "goal_completed" <=> em.status = "completed"
        /\ em.status \in {"completed", "failed"}

\* ------------------------------------------------------------------ C38
\* C38: whenever an iteration of _execute_plan has ended (the loop is at its
\* head again) or _execute_plan has returned, no step of the current plan is
\* in_progress or evaluating, also when a task of a parallel batch raised.
C38_Settled ==
  pc \in {"loop", "finish"} =>
    \A i \in DOMAIN plan.steps :
      plan.steps[i].status \notin {"in_progress", "evaluating"}

\* ------------------------------------------------------------------ C39
\* The positions of the steps that position i of plan p waits for.
WaitsFor(p, i) ==
  {j \in DOMAIN p.steps : p.steps[j].step_id \in p.steps[i].depends_on}

RECURSIVE Upstream(_, _, _)
Upstream(p, frontier, n) ==
  IF n = 0 THEN frontier
  ELSE Upstream(p, frontier \cup UNION {WaitsFor(p, j) : j \in frontier}, n - 1)

Acyclic(p) ==
  \A i \in DOMAIN p.steps : i \notin Upstream(p, WaitsFor(p, i), Len(p.steps))

DistinctIds(p) ==
  \A i, j \in DOMAIN p.steps : p.steps[i].step_id = p.steps[j].step_id => i = j

\* C39: the dependency graph of every plan version the Engine schedules (the
\* Planner's version 1 and every version a replan returns) is acyclic. Stated
\* for the plans whose step ids are distinct, where the graph over ids and the
\* graph over steps are the same graph.
C39_Acyclic == pc = "loop" /\ DistinctIds(plan) => Acyclic(plan)

\* ------------------------------------------------------------------ C40
\* C40: when process_goal has ended for a goal whose text contains
\* DEMO-SAFE-001, the mock plan is persisted, plan_created, step_update and
\* goal_completed were broadcast, and the goal is completed. Stated for the runs
\* whose first status update and goal_status broadcast succeeded.
C40_DemoSafe ==
  demo /\ pc = "done" /\ "goal_status" \in events =>
    /\ db_plans # <<>>
    /\ {"plan_created", "step_update", "goal_completed"} \subseteq events
    /\ goal_status = "completed"

====
